---- MODULE Spec2Model ----
(***************************************************************************)
(* hookman: the lexer (lexer/lexer.go), the rule parser (parser/parser.go) *)
(* and the argument-list parser (parser/argumentParser.go), and the delete  *)
(* command of the command line tool (package main).                        *)
(*                                                                         *)
(* A string is a sequence of one-character strings.  Positions are 0-based *)
(* as in the Go code; the i-th byte of s (0-based) is s[i+1].              *)
(***************************************************************************)
EXTENDS Integers, Sequences, FiniteSets, TLC

VARIABLES
    mode,                  \* which parser was constructed: "rule" (parser.New) or "args" (NewArgumentParser); "delete" for a run of the delete command
    pc,                    \* "lex": inside Lexer.Lex, "parse": inside parseRule/parseArguments, "done": Parse returned; "deleteHook": the command is about to run, "exit": the process has ended
    Input,                 \* Lexer.Input
    Tokens,                \* Lexer.Tokens
    State,                 \* Lexer.State, the name of the next LexFn, "nil" to halt
    Errors,                \* Lexer.Errors
    TokenStart,            \* Lexer.TokenStart
    Position,              \* Lexer.Position
    OpenParenthesisCount,  \* Lexer.OpenParenthesisCount
    ParserPosition,        \* Parser.Position / ArgumentParser.Position
    frames,                \* the call stack of parseRule: one record of locals per active call
    arguments,             \* parseArguments: the local slice arguments
    expectingArgument,     \* parseArguments: the local flag expectingArgument
    GeneratedRule,         \* Parser.GeneratedRule
    GeneratedArguments,    \* ArgumentParser.GeneratedArguments
    err,                   \* what Parse returned: <<>> for nil, <<e>> for the error e
    earlier,               \* what the parsers constructed before this one for the same text ended with
    file,                  \* the hooks stored in the hooks file, in file order
    context,               \* the cli.Context of the command: its arguments and flags
    hooks,                 \* main: the package variable hooks
    hooksIds,              \* main: the package variable hooksIds
    hooksMap,              \* main: the package variable hooksMap; a *hook.Hook is the index of the hook in hooks
    fatal                  \* the message the process has died with (log.Fatalf), "" for none

vars == <<mode, pc, Input, Tokens, State, Errors, TokenStart, Position,
          OpenParenthesisCount, ParserPosition, frames, arguments,
          expectingArgument, GeneratedRule, GeneratedArguments, err, earlier,
          file, context, hooks, hooksIds, hooksMap, fatal>>

lexerVars == <<Input, Tokens, State, Errors, TokenStart, Position, OpenParenthesisCount>>

cliVars == <<file, context, hooks, hooksIds, hooksMap, fatal>>

(***************************************************************************)
(* Bounds of the model.                                                    *)
(***************************************************************************)
MaxParts == 3
MaxOperands == 3
MaxArgParts == 3
MaxParsers == 2
MaxLiveParts == 2
MaxHooks == 3

(***************************************************************************)
(* lexer/lexer.go: constants.                                              *)
(***************************************************************************)
leftParenthesis == <<"(">>
rightParenthesis == <<")">>
singleQuotationMark == <<"'">>
doubleQuotationMark == <<"\"">>
escapedSingleQuotationMark == <<"\\", "'">>
escapedDoubleQuotationMark == <<"\\", "\"">>
comma == <<",">>
regexEqual == <<"~", "=">>
stringEqual == <<"=", "=">>
not == <<"!">>
and == <<"&", "&">>
or == <<"|", "|">>
sha1 == <<"s", "h", "a", "1">>

errorClosingSingleQuotationMarkIsMissing == "missing closing single quotation mark"
errorClosingDoubleQuotationMarkIsMissing == "missing closing double quotation mark"
errorClosingParenthesisMissing == "missing closing parenthesis"
errorUnexpectedToken == "unexpected token %c"

TokenEOF == "TokenEOF"
TokenLeftParenthesis == "TokenLeftParenthesis"
TokenRightParenthesis == "TokenRightParenthesis"
TokenComma == "TokenComma"
TokenRegexEqual == "TokenRegexEqual"
TokenStringEqual == "TokenStringEqual"
TokenNot == "TokenNot"
TokenAnd == "TokenAnd"
TokenOr == "TokenOr"
TokenSingleQuotedStringLiteral == "TokenSingleQuotedStringLiteral"
TokenDoubleQuotedStringLiteral == "TokenDoubleQuotedStringLiteral"
TokenSha1 == "TokenSha1"

Token(type, value) == [Type |-> type, Value |-> value]

(***************************************************************************)
(* An error value.  kind is the message; token and pos are the token text  *)
(* and the position the message prints; tabs is the number of tab          *)
(* characters the message is indented with; inner is <<>> or <<e>> for the *)
(* error e embedded in the message.                                        *)
(***************************************************************************)
MkError(kind, token, pos, tabs, inner) ==
    [kind |-> kind, token |-> token, pos |-> pos, tabs |-> tabs, inner |-> inner]

(***************************************************************************)
(* Go library functions the lexer uses.                                    *)
(***************************************************************************)
\* strings.HasPrefix
HasPrefix(s, prefix) ==
    /\ Len(s) >= Len(prefix)
    /\ SubSeq(s, 1, Len(prefix)) = prefix

\* A continuation byte of a character encoded in more than one byte.
IsContinuationByte(b) == b \in {"<80>", "<A9>"}

\* utf8.RuneCountInString: the number of characters, not of bytes.
RuneCountInString(s) ==
    Cardinality({i \in 1..Len(s) : ~IsContinuationByte(s[i])})

\* unicode.IsSpace
IsSpace(ch) == ch \in {" ", "\t", "\n", "\r"}

\* unicode lower-casing of one character (the upper-case letters of the inputs).
LowerChar(ch) ==
    CASE ch = "S" -> "s"
      [] ch = "H" -> "h"
      [] ch = "A" -> "a"
      [] ch = "X" -> "x"
      [] OTHER -> ch

\* strings.ToLower
ToLower(s) == [i \in 1..Len(s) |-> LowerChar(s[i])]

(***************************************************************************)
(* lexer/lexer.go: the helpers of Lexer, as functions of the position.     *)
(***************************************************************************)
\* Lexer.IsEOF
IsEOFAt(p) == p >= RuneCountInString(Input)

\* Lexer.RemainingInput
RemainingInputAt(p) == SubSeq(Input, p + 1, Len(Input))

\* Mutant of Emit: the end-of-input token is not appended.
EmitNoEOF(tokens, tokenType, start, p) ==
    IF tokenType = TokenEOF THEN tokens
    ELSE Append(tokens, Token(tokenType, SubSeq(Input, start + 1, p)))

\* Mutant of Emit: the token is appended twice.
EmitTwice(tokens, tokenType, start, p) ==
    tokens \o <<Token(tokenType, SubSeq(Input, start + 1, p)),
                Token(tokenType, SubSeq(Input, start + 1, p))>>

\* Lexer.Emit: the tokens after appending a token of text Input[start:p]
Emit(tokens, tokenType, start, p) ==
    Append(tokens, Token(tokenType, SubSeq(Input, start + 1, p)))

\* Lexer.Errorf: the errors after appending "<msg> at position: <p>"
Errorf(errors, msg, token, p) ==
    Append(errors, MkError(msg, token, p, 0, <<>>))

\* Lexer.EatWhitespaces (with Lexer.Read): the position after skipping the
\* white space that starts at p.
RECURSIVE EatWhitespaces(_)
EatWhitespaces(p) ==
    IF IsEOFAt(p) THEN p
    ELSE IF IsSpace(Input[p + 1]) THEN EatWhitespaces(p + 1)
    ELSE p

\* The loop of LexSingleQuotedString / LexDoubleQuotedString from position p:
\* where it stops, and whether it stopped on the closing quotation mark.
RECURSIVE ScanQuoted(_, _, _)
ScanQuoted(p, quotationMark, escapedQuotationMark) ==
    IF IsEOFAt(p) THEN [closed |-> FALSE, pos |-> p]
    ELSE IF HasPrefix(RemainingInputAt(p), escapedQuotationMark)
         THEN ScanQuoted(p + Len(escapedQuotationMark), quotationMark, escapedQuotationMark)
    ELSE IF HasPrefix(RemainingInputAt(p), quotationMark)
         THEN [closed |-> TRUE, pos |-> p]
    ELSE ScanQuoted(p + 1, quotationMark, escapedQuotationMark)

(***************************************************************************)
(* lexer/lexer.go: the state functions.  Each action is one call           *)
(* lexer.State = (lexer.State)(lexer) of the loop of Lexer.Lex.            *)
(***************************************************************************)
\* The common body of LexComma, LexRightParenthesis, LexStringEqual,
\* LexRegexEqual, LexAnd, LexOr, LexNot and LexSha1.
LexFixedToken(lexeme, tokenType) ==
    LET p == Position + Len(lexeme)
        emitted == Emit(Tokens, tokenType, Position, p)
    IN  /\ Position' = p
        /\ IF IsEOFAt(p)
           THEN /\ TokenStart' = p
                /\ Tokens' = Emit(emitted, TokenEOF, p, p)
                /\ State' = "nil"
           ELSE /\ TokenStart' = Position
                /\ Tokens' = emitted
                /\ State' = "LexBegin"

\* The function LexBegin returns for the remaining input.
NextLexFn(remainingInput) ==
    IF HasPrefix(remainingInput, leftParenthesis) THEN "LexLeftParenthesis"
    ELSE IF HasPrefix(remainingInput, rightParenthesis) THEN "LexRightParenthesis"
    ELSE IF HasPrefix(remainingInput, comma) THEN "LexComma"
    ELSE IF HasPrefix(remainingInput, singleQuotationMark) THEN "LexSingleQuotedString"
    ELSE IF HasPrefix(remainingInput, doubleQuotationMark) THEN "LexDoubleQuotedString"
    ELSE IF HasPrefix(remainingInput, not) THEN "LexNot"
    ELSE IF HasPrefix(remainingInput, and) THEN "LexAnd"
    ELSE IF HasPrefix(remainingInput, or) THEN "LexOr"
    ELSE IF HasPrefix(remainingInput, stringEqual) THEN "LexStringEqual"
    ELSE IF HasPrefix(remainingInput, regexEqual) THEN "LexRegexEqual"
    ELSE IF HasPrefix(ToLower(remainingInput), sha1) THEN "LexSha1"
    ELSE "nil"

LexBegin ==
    /\ pc = "lex" /\ State = "LexBegin"
    /\ LET p == EatWhitespaces(Position) IN
         /\ Position' = p
         /\ IF IsEOFAt(p)
            THEN /\ TokenStart' = p
                 /\ Tokens' = Emit(Tokens, TokenEOF, p, p)
                 /\ State' = "nil"
                 /\ Errors' = Errors
            ELSE /\ State' = NextLexFn(RemainingInputAt(p))
                 /\ Errors' = IF State' = "nil"
                              THEN Errorf(Errors, errorUnexpectedToken, <<Input[p + 1]>>, p)
                              ELSE Errors
                 /\ UNCHANGED <<TokenStart, Tokens>>
    /\ UNCHANGED <<cliVars, earlier, mode, pc, Input, OpenParenthesisCount, ParserPosition, frames,
                   arguments, expectingArgument, GeneratedRule, GeneratedArguments, err>>

LexComma ==
    /\ pc = "lex" /\ State = "LexComma"
    /\ LexFixedToken(comma, TokenComma)
    /\ UNCHANGED <<cliVars, earlier, mode, pc, Input, Errors, OpenParenthesisCount, ParserPosition, frames,
                   arguments, expectingArgument, GeneratedRule, GeneratedArguments, err>>

LexLeftParenthesis ==
    /\ pc = "lex" /\ State = "LexLeftParenthesis"
    /\ LET p == Position + Len(leftParenthesis)
           emitted == Emit(Tokens, TokenLeftParenthesis, Position, p)
       IN  /\ Position' = p
           /\ OpenParenthesisCount' = OpenParenthesisCount + 1
           /\ IF IsEOFAt(p)
              THEN /\ TokenStart' = p
                   /\ Tokens' = Emit(emitted, TokenEOF, p, p)
                   /\ Errors' = Errorf(Errors, errorClosingParenthesisMissing, <<>>, p)
                   /\ State' = "nil"
              ELSE /\ TokenStart' = Position
                   /\ Tokens' = emitted
                   /\ Errors' = Errors
                   /\ State' = "LexBegin"
    /\ UNCHANGED <<cliVars, earlier, mode, pc, Input, ParserPosition, frames,
                   arguments, expectingArgument, GeneratedRule, GeneratedArguments, err>>

\* Mutant of closeParenthesis: the counter does not go below zero.
closeParenthesisFloor(count) == IF count > 0 THEN count - 1 ELSE 0

\* LexRightParenthesis: lexer.OpenParenthesisCount--
closeParenthesis(count) == count - 1

LexRightParenthesis ==
    /\ pc = "lex" /\ State = "LexRightParenthesis"
    /\ LexFixedToken(rightParenthesis, TokenRightParenthesis)
    /\ OpenParenthesisCount' = closeParenthesis(OpenParenthesisCount)
    /\ UNCHANGED <<cliVars, earlier, mode, pc, Input, Errors, ParserPosition, frames,
                   arguments, expectingArgument, GeneratedRule, GeneratedArguments, err>>

\* The common body of LexSingleQuotedString and LexDoubleQuotedString.
LexQuotedString(quotationMark, escapedQuotationMark, tokenType, missing) ==
    LET start == Position + Len(quotationMark)
        scan == ScanQuoted(start, quotationMark, escapedQuotationMark)
    IN  IF scan.closed
        THEN /\ TokenStart' = start
             /\ Tokens' = Emit(Tokens, tokenType, start, scan.pos)
             /\ Position' = scan.pos + Len(quotationMark)
             /\ Errors' = Errors
             /\ State' = "LexBegin"
        ELSE /\ TokenStart' = scan.pos
             /\ Tokens' = Emit(Tokens, TokenEOF, scan.pos, scan.pos)
             /\ Position' = scan.pos
             /\ Errors' = Errorf(Errors, missing, <<>>, scan.pos)
             /\ State' = "nil"

LexSingleQuotedString ==
    /\ pc = "lex" /\ State = "LexSingleQuotedString"
    /\ LexQuotedString(singleQuotationMark, escapedSingleQuotationMark,
                       TokenSingleQuotedStringLiteral, errorClosingSingleQuotationMarkIsMissing)
    /\ UNCHANGED <<cliVars, earlier, mode, pc, Input, OpenParenthesisCount, ParserPosition, frames,
                   arguments, expectingArgument, GeneratedRule, GeneratedArguments, err>>

LexDoubleQuotedString ==
    /\ pc = "lex" /\ State = "LexDoubleQuotedString"
    /\ LexQuotedString(doubleQuotationMark, escapedDoubleQuotationMark,
                       TokenDoubleQuotedStringLiteral, errorClosingDoubleQuotationMarkIsMissing)
    /\ UNCHANGED <<cliVars, earlier, mode, pc, Input, OpenParenthesisCount, ParserPosition, frames,
                   arguments, expectingArgument, GeneratedRule, GeneratedArguments, err>>

LexStringEqual ==
    /\ pc = "lex" /\ State = "LexStringEqual"
    /\ LexFixedToken(stringEqual, TokenStringEqual)
    /\ UNCHANGED <<cliVars, earlier, mode, pc, Input, Errors, OpenParenthesisCount, ParserPosition, frames,
                   arguments, expectingArgument, GeneratedRule, GeneratedArguments, err>>

LexRegexEqual ==
    /\ pc = "lex" /\ State = "LexRegexEqual"
    /\ LexFixedToken(regexEqual, TokenRegexEqual)
    /\ UNCHANGED <<cliVars, earlier, mode, pc, Input, Errors, OpenParenthesisCount, ParserPosition, frames,
                   arguments, expectingArgument, GeneratedRule, GeneratedArguments, err>>

LexAnd ==
    /\ pc = "lex" /\ State = "LexAnd"
    /\ LexFixedToken(and, TokenAnd)
    /\ UNCHANGED <<cliVars, earlier, mode, pc, Input, Errors, OpenParenthesisCount, ParserPosition, frames,
                   arguments, expectingArgument, GeneratedRule, GeneratedArguments, err>>

LexOr ==
    /\ pc = "lex" /\ State = "LexOr"
    /\ LexFixedToken(or, TokenOr)
    /\ UNCHANGED <<cliVars, earlier, mode, pc, Input, Errors, OpenParenthesisCount, ParserPosition, frames,
                   arguments, expectingArgument, GeneratedRule, GeneratedArguments, err>>

LexNot ==
    /\ pc = "lex" /\ State = "LexNot"
    /\ LexFixedToken(not, TokenNot)
    /\ UNCHANGED <<cliVars, earlier, mode, pc, Input, Errors, OpenParenthesisCount, ParserPosition, frames,
                   arguments, expectingArgument, GeneratedRule, GeneratedArguments, err>>

LexSha1 ==
    /\ pc = "lex" /\ State = "LexSha1"
    /\ LexFixedToken(sha1, TokenSha1)
    /\ UNCHANGED <<cliVars, earlier, mode, pc, Input, Errors, OpenParenthesisCount, ParserPosition, frames,
                   arguments, expectingArgument, GeneratedRule, GeneratedArguments, err>>

(***************************************************************************)
(* github.com/adnanh/webhook/hook, as parser.go uses it: the parameter     *)
(* sources, the match types and the Rules structure.                       *)
(***************************************************************************)
SourceHeader == <<"h", "e", "a", "d", "e", "r">>
SourcePayload == <<"p", "a", "y", "l", "o", "a", "d">>
SourceQuery == <<"q", "u", "e", "r", "y">>
SourceString == <<"s", "t", "r", "i", "n", "g">>

MatchValue == "MatchValue"
MatchRegex == "MatchRegex"
MatchHashSHA1 == "MatchHashSHA1"

\* hook.Argument
Argument(source, name) == [Source |-> source, Name |-> name]

NoArgument == Argument(<<>>, <<>>)

\* hook.Rules: tag names the one field that is set ("Empty": none of them,
\* the value &hook.Rules{}; "nil": the nil pointer).
Rules(tag, type, parameter, value, regex, secret, rules) ==
    [tag |-> tag, Type |-> type, Parameter |-> parameter, Value |-> value,
     Regex |-> regex, Secret |-> secret, rules |-> rules]

EmptyRule == Rules("Empty", "", NoArgument, <<>>, <<>>, <<>>, <<>>)
NilRule == Rules("nil", "", NoArgument, <<>>, <<>>, <<>>, <<>>)

\* hook.Rules{Match: &hook.MatchRule{...}}
MatchRule(type, parameter, value, regex, secret) ==
    Rules("Match", type, parameter, value, regex, secret, <<>>)

\* hook.Rules{And: &andRule}
AndRule(subRules) == Rules("And", "", NoArgument, <<>>, <<>>, <<>>, subRules)

\* hook.Rules{Or: &orRule}
OrRule(subRules) == Rules("Or", "", NoArgument, <<>>, <<>>, <<>>, subRules)

\* hook.Rules{Not: (*hook.NotRule)(notRule)}
NotRule(rule) == Rules("Not", "", NoArgument, <<>>, <<>>, <<>>, <<rule>>)

(***************************************************************************)
(* parser/parser.go: messages, Parser.hasPrefix, Parser.Error.             *)
(***************************************************************************)
unexpectedToken == "unexpected token %s"
invalidRule == "invalid rule %s"
expectedValidRule == "expected valid rule %s"
errorParsingExpressionGroup == "error parsing expression group %%s\n%s%s"
errorParsingNotRule == "error parsing not rule %%s\n%s%s"
invalidArgumentFormat == "syntax error %%s\n%sargument literal must be in format: paramsource.param.name.path"
invalidParameterSource == "syntax error %%s\n%sparameter source must be one of [%s]"
invalidParameterName == "syntax error %%s\n%sparameter name cannot be blank"
invalidSha1Target == "syntax error %%s\n%ssha1 target must be payload"
errorWhileParsing == "error while parsing input string:\n\t%s"
expectedArgument == "expected argument %s"
expectedComma == "expected , %s"
indexOutOfRange == "panic: runtime error: index out of range"

EOFMarker == <<"<", "E", "O", "F", ">">>

\* Lexer.HasTokenTypeAt
HasTokenTypeAt(pos, tokenType) ==
    IF pos < 0 \/ pos >= Len(Tokens) THEN FALSE
    ELSE Tokens[pos + 1].Type = tokenType

IsLiteralAt(pos) ==
    \/ HasTokenTypeAt(pos, TokenSingleQuotedStringLiteral)
    \/ HasTokenTypeAt(pos, TokenDoubleQuotedStringLiteral)

\* Parser.hasPrefix, at the position pos of the cursor
hasPrefix(exprType, pos) ==
    CASE exprType = "and" -> HasTokenTypeAt(pos, TokenAnd)
      [] exprType = "or" -> HasTokenTypeAt(pos, TokenOr)
      [] exprType = "not" ->
            /\ HasTokenTypeAt(pos, TokenNot)
            /\ HasTokenTypeAt(pos + 1, TokenLeftParenthesis)
      [] exprType = "matchValue" ->
            /\ IsLiteralAt(pos)
            /\ HasTokenTypeAt(pos + 1, TokenStringEqual)
            /\ IsLiteralAt(pos + 2)
      [] exprType = "matchRegex" ->
            /\ IsLiteralAt(pos)
            /\ HasTokenTypeAt(pos + 1, TokenRegexEqual)
            /\ IsLiteralAt(pos + 2)
      [] exprType = "matchHashSHA1" ->
            /\ IsLiteralAt(pos)
            /\ HasTokenTypeAt(pos + 1, TokenStringEqual)
            /\ HasTokenTypeAt(pos + 2, TokenSha1)
            /\ HasTokenTypeAt(pos + 3, TokenLeftParenthesis)
            /\ IsLiteralAt(pos + 4)
            /\ HasTokenTypeAt(pos + 5, TokenComma)
            /\ IsLiteralAt(pos + 6)
            /\ HasTokenTypeAt(pos + 7, TokenRightParenthesis)
      [] exprType = "expressionGroupStart" -> HasTokenTypeAt(pos, TokenLeftParenthesis)
      [] exprType = "expressionGroupEnd" -> HasTokenTypeAt(pos, TokenRightParenthesis)
      [] OTHER -> FALSE

\* The case the switch of parseRule takes at the position pos: the first one
\* whose prefix is there.
SwitchCase(pos) ==
    IF hasPrefix("and", pos) THEN "and"
    ELSE IF hasPrefix("or", pos) THEN "or"
    ELSE IF hasPrefix("not", pos) THEN "not"
    ELSE IF hasPrefix("matchValue", pos) THEN "matchValue"
    ELSE IF hasPrefix("matchRegex", pos) THEN "matchRegex"
    ELSE IF hasPrefix("matchHashSHA1", pos) THEN "matchHashSHA1"
    ELSE IF hasPrefix("expressionGroupStart", pos) THEN "expressionGroupStart"
    ELSE IF hasPrefix("expressionGroupEnd", pos) THEN "expressionGroupEnd"
    ELSE "default"

\* Mutant of absolutePosition: the token at tokenPos is counted too.
RECURSIVE absolutePositionInclusive(_)
absolutePositionInclusive(tokenPos) ==
    IF tokenPos < 0 THEN 0
    ELSE absolutePositionInclusive(tokenPos - 1) + Len(Tokens[tokenPos + 1].Value)

\* The sum of len(t.Value) over the tokens before index tokenPos
RECURSIVE absolutePosition(_)
absolutePosition(tokenPos) ==
    IF tokenPos <= 0 THEN 0
    ELSE absolutePosition(tokenPos - 1) + Len(Tokens[tokenPos].Value)

\* Parser.Error / ArgumentParser.Error: the message kind with the text of the
\* token at index tokenPos and the position computed for it.  Indexing
\* parser.Lexer.Tokens outside its bounds panics.
Error(kind, tabs, inner, tokenPos) ==
    IF tokenPos < 0 \/ tokenPos >= Len(Tokens)
    THEN MkError(indexOutOfRange, <<>>, tokenPos, 0, <<>>)
    ELSE LET token == Tokens[tokenPos + 1]
             tokenValue == IF token.Type = TokenEOF THEN EOFMarker ELSE token.Value
         IN  MkError(kind, tokenValue, absolutePosition(tokenPos), tabs, inner)

(***************************************************************************)
(* The parameter reference check that parseRule and parseArguments apply   *)
(* to a literal.                                                           *)
(***************************************************************************)
\* The index (1-based) of the first "." of s, 0 when there is none
RECURSIVE IndexOfDot(_, _)
IndexOfDot(s, i) ==
    IF i > Len(s) THEN 0
    ELSE IF s[i] = "." THEN i
    ELSE IndexOfDot(s, i + 1)

\* The index (1-based) of the last "." of s, 0 when there is none
RECURSIVE LastIndexOfDot(_, _)
LastIndexOfDot(s, i) ==
    IF i < 1 THEN 0
    ELSE IF s[i] = "." THEN i
    ELSE LastIndexOfDot(s, i - 1)

\* Mutant of SplitN: the literal is split at its last dot.
SplitNLast(source) ==
    LET i == LastIndexOfDot(source, Len(source))
    IN  IF i = 0 THEN <<source>>
        ELSE <<SubSeq(source, 1, i - 1), SubSeq(source, i + 1, Len(source))>>

\* strings.SplitN(source, ".", 2)
SplitN(source) ==
    LET i == IndexOfDot(source, 1)
    IN  IF i = 0 THEN <<source>>
        ELSE <<SubSeq(source, 1, i - 1), SubSeq(source, i + 1, Len(source))>>

\* Mutant of IsParameterSource: any source is taken.
IsParameterSourceAny(s) == TRUE

\* result[0] is one of the four sources
IsParameterSource(s) ==
    ~(s # SourceHeader /\ s # SourcePayload /\ s # SourceQuery /\ s # SourceString)

\* Mutant of parameterError: the name is checked before the source.
parameterErrorNameFirst(source) ==
    LET result == SplitN(source)
    IN  IF Len(result) # 2 THEN invalidArgumentFormat
        ELSE IF result[2] = <<>> THEN invalidParameterName
        ELSE IF ~IsParameterSource(result[1]) THEN invalidParameterSource
        ELSE ""

\* The message of the first check the literal source fails, "" when it passes all
parameterError(source) ==
    LET result == SplitN(source)
    IN  IF Len(result) # 2 THEN invalidArgumentFormat
        ELSE IF ~IsParameterSource(result[1]) THEN invalidParameterSource
        ELSE IF result[2] = <<>> THEN invalidParameterName
        ELSE ""

\* hook.Argument{Source: result[0], Name: result[1]}
parameterOf(source) ==
    LET result == SplitN(source)
    IN  Argument(result[1], result[2])

(***************************************************************************)
(* parser/parser.go: Parser.Parse and Parser.parseRule.                    *)
(*                                                                         *)
(* A frame holds the locals of one call parseRule(depth); via tells what   *)
(* the caller does with the result: "Parse" (the call in Parse), "not"     *)
(* (the call of the not case) or "group" (the call of the group case).     *)
(* The last frame is the running call.  Each action is one iteration of    *)
(* the loop of the running call; an iteration that ends the loop goes on   *)
(* through the checks after the loop and the return into the caller.       *)
(***************************************************************************)
Frame(depth, via) ==
    [subRules |-> <<>>, isAnd |-> FALSE, isOr |-> FALSE, expectingRule |-> FALSE,
     depth |-> depth, via |-> via]

Top == frames[Len(frames)]

\* Mutant of firstLexError: the last error of the list is returned.
lastLexError(errors) == errors[Len(errors)]

\* Parse: errors[0] of the errors Lex returned
firstLexError(errors) == errors[1]

\* Mutant of storeRule: the result is stored whatever parseRule returned.
storeRuleAlways(generated, rule, e) == rule

\* Parse: if err == nil { parser.GeneratedRule = rule }
storeRule(generated, rule, e) == IF e = <<>> THEN rule ELSE generated

\* ArgumentParser.Parse: if err == nil { parser.GeneratedArguments = arguments }
storeArguments(generated, args, e) == IF e = <<>> THEN args ELSE generated

\* Mutant of operatorUnexpected: an empty level is not looked at.
operatorUnexpectedNoEmpty(subRules, expectingRule) ==
    expectingRule

\* Mutant of operatorUnexpected: a pending operator is not looked at.
operatorUnexpectedNoPending(subRules, expectingRule) ==
    Len(subRules) = 0

\* The guard of the and / or cases: the operator token is unexpected when
\* len(subRules) == 0 || expectingRule
operatorUnexpected(subRules, expectingRule) ==
    Len(subRules) = 0 \/ expectingRule

\* Mutant of closeOrRun: the run is closed into a node of the new operator.
closeOrRunAsAnd(subRules) == <<AndRule(subRules)>>

\* Mutant of closeOrRun: the run is not closed into a node.
closeOrRunFlat(subRules) == subRules

\* and case, if isOr: subRules = []hook.Rules{hook.Rules{Or: &orRule}}
closeOrRun(subRules) == <<OrRule(subRules)>>

\* Mutant of flagAfterClose: the flag of the closed run stays set.
flagKept(flag) == flag

\* and / or cases: if isOr { isOr = false ... } (if isAnd { isAnd = false ... }):
\* the flag of the other operator after the if statement
flagAfterClose(flag) == IF flag THEN FALSE ELSE flag

\* Mutant of closeAndRun: the run is not closed into a node.
closeAndRunFlat(subRules) == subRules

\* or case, if isAnd: subRules = []hook.Rules{hook.Rules{And: &andRule}}
closeAndRun(subRules) == <<AndRule(subRules)>>

\* Mutant of sha1TargetOK: the target is read as a reference whose source is checked.
sha1TargetBySource(target) == SplitN(target)[1] = SourcePayload

\* Mutant of sha1TargetOK: a target that starts with the word is accepted.
sha1TargetByPrefix(target) == HasPrefix(target, SourcePayload)

\* matchHashSHA1 case: the target is accepted unless target != hook.SourcePayload
sha1TargetOK(target) == ~(target # SourcePayload)

\* Mutant of closeLevel: a pending operator is not looked at.
closeLevelNoPending(f, pos) ==
    IF Len(f.subRules) = 0
    THEN [error |-> <<Error(invalidRule, 0, <<>>, pos)>>, rule |-> NilRule]
    ELSE IF f.isAnd
    THEN IF Len(f.subRules) = 1
         THEN [error |-> <<Error(unexpectedToken, 0, <<>>, pos - 1)>>, rule |-> NilRule]
         ELSE [error |-> <<>>, rule |-> AndRule(f.subRules)]
    ELSE IF f.isOr
    THEN IF Len(f.subRules) = 1
         THEN [error |-> <<Error(unexpectedToken, 0, <<>>, pos - 1)>>, rule |-> NilRule]
         ELSE [error |-> <<>>, rule |-> OrRule(f.subRules)]
    ELSE [error |-> <<>>, rule |-> f.subRules[1]]

\* The checks after the loop, for the locals f and the cursor pos: the error
\* returned (<<>> for nil) and the rule returned.
closeLevel(f, pos) ==
    IF Len(f.subRules) = 0
    THEN [error |-> <<Error(invalidRule, 0, <<>>, pos)>>, rule |-> NilRule]
    ELSE IF f.expectingRule
    THEN [error |-> <<Error(expectedValidRule, 0, <<>>, pos)>>, rule |-> NilRule]
    ELSE IF f.isAnd
    THEN IF Len(f.subRules) = 1
         THEN [error |-> <<Error(unexpectedToken, 0, <<>>, pos - 1)>>, rule |-> NilRule]
         ELSE [error |-> <<>>, rule |-> AndRule(f.subRules)]
    ELSE IF f.isOr
    THEN IF Len(f.subRules) = 1
         THEN [error |-> <<Error(unexpectedToken, 0, <<>>, pos - 1)>>, rule |-> NilRule]
         ELSE [error |-> <<>>, rule |-> OrRule(f.subRules)]
    ELSE [error |-> <<>>, rule |-> f.subRules[1]]

\* The error Parse gets when the running call of stack returns the error e
\* with the cursor at pos: every caller wraps what its callee returned, the
\* not case at the token pos-2, the group case at the token pos-1.  A panic
\* is not wrapped.
RECURSIVE Unwind(_, _, _)
Unwind(stack, e, pos) ==
    IF Len(stack) <= 1 \/ e.kind = indexOutOfRange THEN e
    ELSE LET caller == stack[Len(stack) - 1]
             wrapped == IF stack[Len(stack)].via = "not"
                        THEN Error(errorParsingNotRule, caller.depth, <<e>>, pos - 2)
                        ELSE Error(errorParsingExpressionGroup, caller.depth, <<e>>, pos - 1)
         IN  Unwind(SubSeq(stack, 1, Len(stack) - 1), wrapped, pos)

\* The running call returns (nil, e) with the cursor at pos.
Fail(e, pos) ==
    /\ pc' = "done"
    /\ err' = <<Unwind(frames, e, pos)>>
    /\ GeneratedRule' = storeRule(GeneratedRule, NilRule, err')
    /\ frames' = <<>>
    /\ ParserPosition' = pos

\* Mutant of callerAfter: the operator flags are those the callee ended with.
callerAfterShared(caller, callee, sub) ==
    [caller EXCEPT !.subRules = Append(@, sub),
                   !.expectingRule = FALSE,
                   !.isAnd = callee.isAnd,
                   !.isOr = callee.isOr]

\* not / group cases after the call returned without error: the locals of
\* the caller after subRules = append(subRules, ...); expectingRule = false.
\* The locals of the callee are gone.
callerAfter(caller, callee, sub) ==
    [caller EXCEPT !.subRules = Append(@, sub),
                   !.expectingRule = FALSE]

\* The running call returns (rule, nil) with the cursor at pos.
Return(rule, pos) ==
    /\ ParserPosition' = pos
    /\ IF Len(frames) = 1
       THEN /\ pc' = "done"
            /\ err' = <<>>
            /\ GeneratedRule' = storeRule(GeneratedRule, rule, err')
            /\ frames' = <<>>
       ELSE LET caller == frames[Len(frames) - 1]
                sub == IF Top.via = "not" THEN NotRule(rule) ELSE rule
            IN  /\ frames' = Append(SubSeq(frames, 1, Len(frames) - 2),
                                    callerAfter(caller, Top, sub))
                /\ UNCHANGED <<pc, err, GeneratedRule>>

\* Mutant of Continue: the cursor stays where it is.
ContinueInPlace(f, pos) ==
    /\ frames' = [frames EXCEPT ![Len(frames)] = f]
    /\ ParserPosition' = ParserPosition
    /\ UNCHANGED <<pc, err, GeneratedRule>>

\* The running call goes on to the next iteration with the locals f.
Continue(f, pos) ==
    /\ frames' = [frames EXCEPT ![Len(frames)] = f]
    /\ ParserPosition' = pos
    /\ UNCHANGED <<pc, err, GeneratedRule>>

\* The running call leaves its loop with the cursor at pos.
EndLevel(pos) ==
    LET r == closeLevel(Top, pos)
    IN  IF r.error # <<>> THEN Fail(r.error[1], pos) ELSE Return(r.rule, pos)

InParseRule(case) ==
    /\ pc = "parse" /\ mode = "rule"
    /\ SwitchCase(ParserPosition) = case

\* Mutant of parenthesisMissing: the count is not looked at.
parenthesisMissingNever(count) == FALSE

\* Lexer.Lex after its loop: if lexer.OpenParenthesisCount > 0
parenthesisMissing(count) == count > 0

\* Mutant of scanFailed: one error is let through.
scanFailedOnSecond(errors) == Len(errors) > 1

\* Parse: if errors := parser.Lexer.Lex(); len(errors) > 0
scanFailed(errors) == Len(errors) > 0

\* Lexer.Lex after its loop, and Parse up to the call of parseRule(1) or
\* parseArguments().
LexDone ==
    /\ pc = "lex" /\ State = "nil"
    /\ Errors' = IF parenthesisMissing(OpenParenthesisCount)
                 THEN Errorf(Errors, errorClosingParenthesisMissing, <<>>, Position)
                 ELSE Errors
    /\ IF scanFailed(Errors')
       THEN /\ pc' = "done"
            /\ err' = <<MkError(errorWhileParsing, <<>>, 0, 1, <<firstLexError(Errors')>>)>>
            /\ frames' = <<>>
       ELSE /\ pc' = "parse"
            /\ err' = <<>>
            /\ frames' = IF mode = "rule" THEN <<Frame(1, "Parse")>> ELSE <<>>
    /\ UNCHANGED <<cliVars, earlier, mode, Input, Tokens, State, TokenStart, Position, OpenParenthesisCount,
                   ParserPosition, arguments, expectingArgument, GeneratedRule,
                   GeneratedArguments>>

ParseAnd ==
    /\ InParseRule("and")
    /\ IF operatorUnexpected(Top.subRules, Top.expectingRule)
       THEN Fail(Error(unexpectedToken, 0, <<>>, ParserPosition), ParserPosition)
       ELSE Continue([Top EXCEPT !.subRules = IF Top.isOr THEN closeOrRun(@) ELSE @,
                                 !.isOr = flagAfterClose(@),
                                 !.isAnd = TRUE,
                                 !.expectingRule = TRUE],
                     ParserPosition + 1)
    /\ UNCHANGED <<cliVars, earlier, mode, lexerVars, arguments, expectingArgument, GeneratedArguments>>

ParseOr ==
    /\ InParseRule("or")
    /\ IF operatorUnexpected(Top.subRules, Top.expectingRule)
       THEN Fail(Error(unexpectedToken, 0, <<>>, ParserPosition), ParserPosition)
       ELSE Continue([Top EXCEPT !.subRules = IF Top.isAnd THEN closeAndRun(@) ELSE @,
                                 !.isAnd = flagAfterClose(@),
                                 !.isOr = TRUE,
                                 !.expectingRule = TRUE],
                     ParserPosition + 1)
    /\ UNCHANGED <<cliVars, earlier, mode, lexerVars, arguments, expectingArgument, GeneratedArguments>>

ParseNot ==
    /\ InParseRule("not")
    /\ frames' = Append(frames, Frame(Top.depth + 1, "not"))
    /\ ParserPosition' = ParserPosition + 2
    /\ UNCHANGED <<cliVars, earlier, mode, pc, lexerVars, arguments, expectingArgument, GeneratedRule,
                   GeneratedArguments, err>>

\* The common body of the matchValue and matchRegex cases.
ParseMatch(type) ==
    LET source == Tokens[ParserPosition + 1].Value
        value == Tokens[ParserPosition + 3].Value
        problem == parameterError(source)
        matchRule == IF type = MatchValue
                     THEN MatchRule(MatchValue, parameterOf(source), value, <<>>, <<>>)
                     ELSE MatchRule(MatchRegex, parameterOf(source), <<>>, value, <<>>)
    IN  IF problem # ""
        THEN Fail(Error(problem, Top.depth, <<>>, ParserPosition), ParserPosition)
        ELSE Continue([Top EXCEPT !.subRules = Append(@, matchRule),
                                  !.expectingRule = FALSE],
                      ParserPosition + 3)

ParseMatchValue ==
    /\ InParseRule("matchValue")
    /\ ParseMatch(MatchValue)
    /\ UNCHANGED <<cliVars, earlier, mode, lexerVars, arguments, expectingArgument, GeneratedArguments>>

ParseMatchRegex ==
    /\ InParseRule("matchRegex")
    /\ ParseMatch(MatchRegex)
    /\ UNCHANGED <<cliVars, earlier, mode, lexerVars, arguments, expectingArgument, GeneratedArguments>>

ParseMatchHashSHA1 ==
    /\ InParseRule("matchHashSHA1")
    /\ LET source == Tokens[ParserPosition + 1].Value
           target == Tokens[ParserPosition + 5].Value
           secret == Tokens[ParserPosition + 7].Value
           problem == parameterError(source)
       IN  IF ~sha1TargetOK(target)
           THEN Fail(Error(invalidSha1Target, Top.depth, <<>>, ParserPosition + 4),
                     ParserPosition)
           ELSE IF problem # ""
           THEN Fail(Error(problem, Top.depth, <<>>, ParserPosition), ParserPosition)
           ELSE Continue([Top EXCEPT
                             !.subRules = Append(@, MatchRule(MatchHashSHA1, parameterOf(source),
                                                              <<>>, <<>>, secret)),
                             !.expectingRule = FALSE],
                         ParserPosition + 8)
    /\ UNCHANGED <<cliVars, earlier, mode, lexerVars, arguments, expectingArgument, GeneratedArguments>>

ParseGroupStart ==
    /\ InParseRule("expressionGroupStart")
    /\ frames' = Append(frames, Frame(Top.depth + 1, "group"))
    /\ ParserPosition' = ParserPosition + 1
    /\ UNCHANGED <<cliVars, earlier, mode, pc, lexerVars, arguments, expectingArgument, GeneratedRule,
                   GeneratedArguments, err>>

ParseGroupEnd ==
    /\ InParseRule("expressionGroupEnd")
    /\ EndLevel(ParserPosition + 1)
    /\ UNCHANGED <<cliVars, earlier, mode, lexerVars, arguments, expectingArgument, GeneratedArguments>>

ParseDefault ==
    /\ InParseRule("default")
    /\ IF ~HasTokenTypeAt(ParserPosition, TokenEOF)
       THEN Fail(Error(unexpectedToken, 0, <<>>, ParserPosition), ParserPosition)
       ELSE EndLevel(ParserPosition)
    /\ UNCHANGED <<cliVars, earlier, mode, lexerVars, arguments, expectingArgument, GeneratedArguments>>

(***************************************************************************)
(* parser/argumentParser.go: ArgumentParser.Parse and parseArguments.      *)
(* Each action is one iteration of the loop of parseArguments; the         *)
(* iteration that ends the loop goes on through the check after the loop   *)
(* and the return into Parse.                                              *)
(***************************************************************************)
\* parseArguments returns (nil, e), and Parse returns e.
FailArguments(e) ==
    /\ pc' = "done"
    /\ err' = <<e>>
    /\ GeneratedArguments' = storeArguments(GeneratedArguments, <<>>, err')
    /\ UNCHANGED <<ParserPosition, arguments, expectingArgument>>

InParseArguments ==
    /\ pc = "parse" /\ mode = "args"

\* Mutant of commaExpected: a literal is taken whatever came before it.
commaExpectedNever(expecting) == FALSE

\* case argument: if !expectingArgument, the literal is refused
commaExpected(expecting) == ~expecting

\* Mutant of appendArgument: the new reference is put first.
prependArgument(args, argument) == <<argument>> \o args

\* case argument: arguments = append(arguments, argument)
appendArgument(args, argument) == Append(args, argument)

\* Mutant of argumentParameterError: the name is checked before the source.
argumentParameterErrorNameFirst(source) == parameterErrorNameFirst(source)

\* parseArguments, argument case: the message of the first check the literal
\* source fails, "" when it passes all.  The three checks are those of the
\* match cases of parseRule, in the same order.
argumentParameterError(source) == parameterError(source)

ParseArgument ==
    /\ InParseArguments
    /\ IsLiteralAt(ParserPosition)
    /\ LET source == Tokens[ParserPosition + 1].Value
           problem == argumentParameterError(source)
       IN  IF commaExpected(expectingArgument)
           THEN FailArguments(Error(expectedComma, 0, <<>>, ParserPosition))
           ELSE IF problem # ""
           THEN FailArguments(Error(problem, 1, <<>>, ParserPosition))
           ELSE /\ arguments' = appendArgument(arguments, parameterOf(source))
                /\ expectingArgument' = FALSE
                /\ ParserPosition' = ParserPosition + 1
                /\ UNCHANGED <<pc, err, GeneratedArguments>>
    /\ UNCHANGED <<cliVars, earlier, mode, lexerVars, frames, GeneratedRule>>

ParseArgumentComma ==
    /\ InParseArguments
    /\ ~IsLiteralAt(ParserPosition)
    /\ HasTokenTypeAt(ParserPosition, TokenComma)
    /\ IF expectingArgument
       THEN FailArguments(Error(unexpectedToken, 0, <<>>, ParserPosition))
       ELSE /\ expectingArgument' = TRUE
            /\ ParserPosition' = ParserPosition + 1
            /\ UNCHANGED <<pc, err, arguments, GeneratedArguments>>
    /\ UNCHANGED <<cliVars, earlier, mode, lexerVars, frames, GeneratedRule>>

ParseArgumentDefault ==
    /\ InParseArguments
    /\ ~IsLiteralAt(ParserPosition)
    /\ ~HasTokenTypeAt(ParserPosition, TokenComma)
    /\ IF ~HasTokenTypeAt(ParserPosition, TokenEOF)
       THEN FailArguments(Error(unexpectedToken, 0, <<>>, ParserPosition))
       ELSE IF expectingArgument
       THEN FailArguments(Error(expectedArgument, 0, <<>>, ParserPosition))
       ELSE /\ pc' = "done"
            /\ err' = <<>>
            /\ GeneratedArguments' = storeArguments(GeneratedArguments, arguments, err')
            /\ UNCHANGED <<ParserPosition, arguments, expectingArgument>>
    /\ UNCHANGED <<cliVars, earlier, mode, lexerVars, frames, GeneratedRule>>

(***************************************************************************)
(* The input strings.                                                      *)
(***************************************************************************)
RECURSIVE Concat(_)
Concat(parts) ==
    IF parts = <<>> THEN <<>> ELSE Head(parts) \o Concat(Tail(parts))

\* The sequences of at most n elements of pool
PartSeqs(pool, n) == UNION {[1..k -> pool] : k \in 0..n}

\* The text s as a literal in the quotation mark q
Quoted(q, s) == q \o s \o q

QuotationMarks == {singleQuotationMark, doubleQuotationMark}

textFoo == <<"f", "o", "o">>
textSecret == <<"s", "e", "c", "r", "e", "t">>
textPattern == <<"^", "a", "b", ".", "*">>
textHeaderX == <<"h", "e", "a", "d", "e", "r", ".", "X">>
textPayloadBody == <<"p", "a", "y", "l", "o", "a", "d", ".", "b", "o", "d", "y">>
textQueryQ == <<"q", "u", "e", "r", "y", ".", "q">>
textStringAB == <<"s", "t", "r", "i", "n", "g", ".", "a", ".", "b">>
textNoDot == <<"n", "o", "d", "o", "t">>
textBadSource == <<"b", "a", "d", ".", "x">>
textNoName == <<"h", "e", "a", "d", "e", "r", ".">>
textBadNoName == <<"b", "a", "d", ".">>

\* 'header.X'=='foo'
textMatchValue == <<"'", "h", "e", "a", "d", "e", "r", ".", "X", "'", "=", "=", "'", "f", "o", "o", "'">>
\* "payload.body" ~= "^ab.*"
textMatchRegex == <<"\"", "p", "a", "y", "l", "o", "a", "d", ".", "b", "o", "d", "y", "\"", " ", "~", "=", " ", "\"", "^", "a", "b", ".", "*", "\"">>
\* "query.q"==SHA1('payload', "secret")
textMatchHash == <<"\"", "q", "u", "e", "r", "y", ".", "q", "\"", "=", "=", "S", "H", "A", "1", "(", "'", "p", "a", "y", "l", "o", "a", "d", "'", ",", " ", "\"", "s", "e", "c", "r", "e", "t", "\"", ")">>
\* (!('header.X'=='foo') || "payload.body" ~= "^ab.*")
textGroup ==
    <<"(", "!", "(", "'", "h", "e", "a", "d", "e", "r", ".", "X", "'", "=", "=", "'", "f", "o", "o", "'", ")", " ", "|", "|", " ", "\"", "p", "a", "y", "l", "o", "a", "d", ".", "b", "o", "d", "y", "\"", " ", "~", "=", " ", "\"", "^", "a", "b", ".", "*", "\"", ")">>

\* Rule texts of at most MaxParts parts, of any shape.
RuleParts ==
    {leftParenthesis, rightParenthesis, not, and, or, comma,
     textMatchValue, textMatchRegex,
     Quoted(singleQuotationMark, textFoo),
     doubleQuotationMark \o textFoo,
     <<"x">>}

PartInputs == {Concat(parts) : parts \in PartSeqs(RuleParts, MaxParts)}

\* Rule texts of at most MaxOperands operands joined by && and ||.
Operands == {textMatchValue, textMatchRegex, textMatchHash, textGroup}

OperatorTexts == {<<" ">> \o and \o <<" ">>, or}

RECURSIVE ChainsOf(_)
ChainsOf(k) ==
    IF k = 1 THEN Operands
    ELSE {c \o op \o x : c \in ChainsOf(k - 1), op \in OperatorTexts, x \in Operands}

ChainInputs == UNION {ChainsOf(k) : k \in 1..MaxOperands}

\* Rule texts of one match expression, with every kind of parameter literal.
ParameterTexts ==
    {textHeaderX, textPayloadBody, textQueryQ, textStringAB,
     textNoDot, textBadSource, textNoName, textBadNoName}

MatchInputs ==
    {Quoted(qp, param) \o op \o Quoted(qv, v) :
        qp \in QuotationMarks, qv \in QuotationMarks, param \in ParameterTexts,
        op \in {<<" ">> \o stringEqual \o <<" ">>, regexEqual},
        v \in {textFoo, textPattern, <<>>}}

Sha1Text(q, param, fn, target, secret) ==
    Quoted(q, param) \o <<" ">> \o stringEqual \o <<" ">> \o fn \o leftParenthesis
        \o Quoted(q, target) \o comma \o <<" ">> \o Quoted(q, secret) \o rightParenthesis

Sha1Inputs ==
    {Sha1Text(q, param, fn, target, secret) :
        q \in QuotationMarks,
        param \in {textHeaderX, textNoDot, textBadSource, textNoName},
        fn \in {sha1, <<"S", "h", "A", "1">>},
        target \in {SourcePayload, textPayloadBody, textHeaderX, <<>>},
        secret \in {textSecret, <<>>}}
    \cup
    {leftParenthesis \o Sha1Text(q, textHeaderX, sha1, target, textSecret) \o rightParenthesis :
        q \in QuotationMarks,
        target \in {SourcePayload, textPayloadBody, textHeaderX, <<>>}}

\* Rule texts in which a level ends directly after an operator, at depth 1, 2 and 3.
Wrappers ==
    {<<<<>>, <<>>>>,
     <<leftParenthesis, rightParenthesis>>,
     <<not \o leftParenthesis, <<" ">> \o rightParenthesis>>,
     <<leftParenthesis \o leftParenthesis, rightParenthesis \o rightParenthesis>>,
     <<not \o leftParenthesis \o textMatchRegex \o or \o leftParenthesis,
       rightParenthesis \o rightParenthesis>>}

DanglingInputs ==
    {w[1] \o x \o op \o w[2] :
        w \in Wrappers,
        x \in {textMatchValue, textGroup, textMatchValue \o or \o textMatchHash},
        op \in OperatorTexts}

\* "a.b" == "c" &&
textC13 ==
    <<"\"", "a", ".", "b", "\"", " ", "=", "=", " ", "\"", "c", "\"", " ", "&", "&">>

\* "header.b" == "c" &&
textC13Header ==
    <<"\"", "h", "e", "a", "d", "e", "r", ".", "b", "\"", " ", "=", "=", " ", "\"", "c", "\"", " ", "&", "&">>

\* Rule texts R that parse successfully, and the texts !(R), !(R) && x,
\* (R) and ((R)).
WrapBases ==
    {textMatchValue, textMatchRegex, textMatchHash, textGroup,
     textMatchValue \o and \o textMatchRegex,
     textMatchValue \o rightParenthesis \o and \o textMatchRegex,
     textMatchValue \o rightParenthesis \o comma}

WrapInputs ==
    UNION {{R,
            not \o leftParenthesis \o R \o rightParenthesis,
            not \o leftParenthesis \o R \o rightParenthesis \o and \o textMatchHash,
            leftParenthesis \o R \o rightParenthesis,
            leftParenthesis \o leftParenthesis \o R \o rightParenthesis \o rightParenthesis} :
           R \in WrapBases}

\* The text s with a backslash put before every copy of the quotation mark q
RECURSIVE EscapeQuotes(_, _)
EscapeQuotes(s, q) ==
    IF s = <<>> THEN <<>>
    ELSE IF <<Head(s)>> = q THEN <<"\\">> \o q \o EscapeQuotes(Tail(s), q)
    ELSE <<Head(s)>> \o EscapeQuotes(Tail(s), q)

\* Contents of literals in the quotation mark q, with escaped quotation marks:
\* a\qb, \q, \qa\q, and a\pb for the other quotation mark p
EscapedContents(q) ==
    {<<"a", "\\">> \o q \o <<"b">>,
     <<"\\">> \o q,
     <<"\\">> \o q \o <<"a", "\\">> \o q,
     <<"a", "\\">> \o CHOOSE p \in QuotationMarks : p # q}

\* 'header.X'== followed by the literal of content s in the quotation mark q
EscapedText(q, s) ==
    Quoted(singleQuotationMark, textHeaderX) \o stringEqual \o Quoted(q, s)

\* Rule texts with escaped quotation marks in a literal, and the texts made
\* of the same content escaped once more.
EscapeInputs ==
    UNION {UNION {{EscapedText(q, s), EscapedText(q, EscapeQuotes(s, q))} :
                  s \in EscapedContents(q)} :
           q \in QuotationMarks}

\* Contents of literals with the character % in them: %s, a%, %% and %d.X
PercentContents ==
    {<<"%", "s">>, <<"a", "%">>, <<"%", "%">>, <<"%", "d", ".", "X">>}

\* Rule texts whose error mentions a literal with the character %: the
\* literal alone, in a group, in a not rule, in two groups, and as the left
\* operand of a match expression in a group.
PercentInputs ==
    UNION {{Quoted(singleQuotationMark, c),
            leftParenthesis \o Quoted(singleQuotationMark, c) \o rightParenthesis,
            not \o leftParenthesis \o Quoted(doubleQuotationMark, c) \o rightParenthesis,
            leftParenthesis \o leftParenthesis \o Quoted(singleQuotationMark, c)
                \o rightParenthesis \o rightParenthesis,
            leftParenthesis \o Quoted(singleQuotationMark, c) \o stringEqual
                \o Quoted(singleQuotationMark, textFoo) \o rightParenthesis} :
           c \in PercentContents}

\* Rule texts L == sha1('payload', 'secret') with every kind of parameter literal L.
Sha1ReferenceInputs ==
    {Sha1Text(singleQuotationMark, param, sha1, SourcePayload, textSecret) :
        param \in ParameterTexts}

\* The two bytes of one character encoded in more than one byte
textTwoBytes == <<"<C3>", "<A9>">>

\* Rule texts with a character of two bytes in the first literal: the
\* literal alone, a match expression, and a match expression followed by
\* further text.
MultiByteInputs ==
    LET literal == Quoted(singleQuotationMark, textHeaderX \o textTwoBytes)
        expr == literal \o stringEqual \o Quoted(singleQuotationMark, textFoo)
    IN  {Quoted(singleQuotationMark, textTwoBytes), literal, expr,
         expr \o <<" ", "x">>,
         expr \o rightParenthesis,
         expr \o and \o textMatchRegex,
         leftParenthesis \o expr \o rightParenthesis \o rightParenthesis}

\* header.(X and f)) : contents of literals with parentheses
textHeaderParenthesis == <<"h", "e", "a", "d", "e", "r", ".", "(", "X">>
textCloseParentheses == <<"f", ")", ")">>

\* Rule texts with parentheses inside quoted literals, alone and in a group.
ParenthesisLiteralInputs ==
    LET expr == Quoted(singleQuotationMark, textHeaderParenthesis) \o stringEqual
                    \o Quoted(doubleQuotationMark, textCloseParentheses)
    IN  {expr,
         leftParenthesis \o expr \o rightParenthesis,
         leftParenthesis \o expr,
         expr \o rightParenthesis,
         rightParenthesis \o leftParenthesis \o expr \o rightParenthesis \o leftParenthesis}

RuleInputs ==
    PartInputs \cup ChainInputs \cup MatchInputs \cup Sha1Inputs \cup DanglingInputs
        \cup {textC13, textC13Header} \cup WrapInputs \cup EscapeInputs
        \cup PercentInputs \cup Sha1ReferenceInputs \cup MultiByteInputs
        \cup ParenthesisLiteralInputs

\* Argument-list texts of at most MaxArgParts parts.
ArgumentParts ==
    {Quoted(singleQuotationMark, textHeaderX), Quoted(doubleQuotationMark, textStringAB),
     Quoted(singleQuotationMark, textNoDot), Quoted(doubleQuotationMark, textBadSource),
     Quoted(singleQuotationMark, textNoName), Quoted(doubleQuotationMark, textBadNoName),
     comma, <<" ">> \o comma \o <<" ">>,
     and, singleQuotationMark \o textFoo}

\* Argument-list texts of one literal, with every kind of parameter literal.
ArgumentReferenceInputs ==
    {Quoted(q, param) : q \in QuotationMarks, param \in ParameterTexts}

\* Argument-list texts with a character of two bytes in the first literal.
MultiByteArgumentInputs ==
    LET literal == Quoted(singleQuotationMark, textHeaderX \o textTwoBytes)
    IN  {literal, literal \o comma, literal \o comma \o comma,
         literal \o comma \o Quoted(singleQuotationMark, textHeaderX)}

ArgumentInputs ==
    {Concat(parts) : parts \in PartSeqs(ArgumentParts, MaxArgParts)}
        \cup ArgumentReferenceInputs \cup MultiByteArgumentInputs

(***************************************************************************)
(* The command line tool, package main: what its variables hold.           *)
(***************************************************************************)
\* The hook ids of the hooks files, and a further id a command may name
HookIDs == {"a", "b"}

ArgumentIDs == HookIDs \cup {"c"}

\* hook.Hook: the id and one more property
Hook(id, command) == [ID |-> id, ExecuteCommand |-> command]

\* cli.Context of the delete command: c.Args(), c.IsSet("idx"), c.Int("idx"),
\* c.IsSet("all"), c.Bool("all")
Context(args, idxSet, idx, allSet, all) ==
    [Args |-> args, idxSet |-> idxSet, idx |-> idx, allSet |-> allSet, all |-> all]

\* var hooksMap = make(map[string][]*hook.Hook): no hook under any id
emptyHooksMap == [id \in ArgumentIDs |-> <<>>]

\* The package variables before a command has run; no command was given.
cliAtRest ==
    /\ file = <<>>
    /\ context = Context(<<>>, FALSE, 0, FALSE, FALSE)
    /\ hooks = <<>>
    /\ hooksIds = <<>>
    /\ hooksMap = emptyHooksMap
    /\ fatal = ""

(***************************************************************************)
(* The specification: one parser is constructed for one input string and   *)
(* Parse is called on it once.                                             *)
(***************************************************************************)
Init ==
    /\ mode \in {"rule", "args"}
    /\ Input \in IF mode = "rule" THEN RuleInputs ELSE ArgumentInputs
    /\ pc = "lex"
    /\ Tokens = <<>>
    /\ State = "LexBegin"
    /\ Errors = <<>>
    /\ TokenStart = 0
    /\ Position = 0
    /\ OpenParenthesisCount = 0
    /\ ParserPosition = 0
    /\ frames = <<>>
    /\ arguments = <<>>
    /\ expectingArgument = TRUE
    /\ GeneratedRule = EmptyRule
    /\ GeneratedArguments = <<>>
    /\ err = <<>>
    /\ earlier = <<>>
    /\ cliAtRest

Next ==
    \/ LexBegin
    \/ LexComma
    \/ LexLeftParenthesis
    \/ LexRightParenthesis
    \/ LexSingleQuotedString
    \/ LexDoubleQuotedString
    \/ LexStringEqual
    \/ LexRegexEqual
    \/ LexAnd
    \/ LexOr
    \/ LexNot
    \/ LexSha1
    \/ LexDone
    \/ ParseAnd
    \/ ParseOr
    \/ ParseNot
    \/ ParseMatchValue
    \/ ParseMatchRegex
    \/ ParseMatchHashSHA1
    \/ ParseGroupStart
    \/ ParseGroupEnd
    \/ ParseDefault
    \/ ParseArgument
    \/ ParseArgumentComma
    \/ ParseArgumentDefault

Spec == Init /\ [][Next]_vars

(***************************************************************************)
(* A second specification: when Parse has returned, another parser is      *)
(* constructed for the same input string and Parse is called on it, up to  *)
(* MaxParsers parsers one after the other.                                 *)
(***************************************************************************)
\* What a parser ended with: the error Parse returned and the result fields
Outcome ==
    [err |-> err, GeneratedRule |-> GeneratedRule,
     GeneratedArguments |-> GeneratedArguments, Tokens |-> Tokens]

\* Mutant of newParserPosition: the cursor is shared with the parser before.
sharedParserPosition == ParserPosition

\* Parser.Position of the Parser that New returns: the zero value
newParserPosition == 0

\* parser.New(input) / NewArgumentParser(input), with lexer.New(input)
NewParser ==
    /\ pc = "done"
    /\ Len(earlier) < MaxParsers - 1
    /\ earlier' = Append(earlier, Outcome)
    /\ pc' = "lex"
    /\ Tokens' = <<>>
    /\ State' = "LexBegin"
    /\ Errors' = <<>>
    /\ TokenStart' = 0
    /\ Position' = 0
    /\ OpenParenthesisCount' = 0
    /\ ParserPosition' = newParserPosition
    /\ frames' = <<>>
    /\ arguments' = <<>>
    /\ expectingArgument' = TRUE
    /\ GeneratedRule' = EmptyRule
    /\ GeneratedArguments' = <<>>
    /\ err' = <<>>
    /\ UNCHANGED <<cliVars, mode, Input>>

\* The input strings of the second specification
TwiceRuleInputs ==
    {Concat(parts) : parts \in PartSeqs(RuleParts, 2)}
        \cup ChainsOf(1) \cup ChainsOf(2) \cup MatchInputs \cup Sha1Inputs
        \cup DanglingInputs \cup WrapInputs \cup EscapeInputs

TwiceArgumentInputs == {Concat(parts) : parts \in PartSeqs(ArgumentParts, 2)}

InitTwice ==
    /\ mode \in {"rule", "args"}
    /\ Input \in IF mode = "rule" THEN TwiceRuleInputs ELSE TwiceArgumentInputs
    /\ pc = "lex"
    /\ Tokens = <<>>
    /\ State = "LexBegin"
    /\ Errors = <<>>
    /\ TokenStart = 0
    /\ Position = 0
    /\ OpenParenthesisCount = 0
    /\ ParserPosition = 0
    /\ frames = <<>>
    /\ arguments = <<>>
    /\ expectingArgument = TRUE
    /\ GeneratedRule = EmptyRule
    /\ GeneratedArguments = <<>>
    /\ err = <<>>
    /\ earlier = <<>>
    /\ cliAtRest

NextTwice ==
    \/ Next
    \/ NewParser

SpecTwice == InitTwice /\ [][NextTwice]_vars

(***************************************************************************)
(* Properties.                                                             *)
(***************************************************************************)
Success == pc = "done" /\ err = <<>>

Failure == pc = "done" /\ err # <<>>

\* The error at the bottom of the chain of embedded errors of e
RECURSIVE Innermost(_)
Innermost(e) == IF e.inner = <<>> THEN e ELSE Innermost(e.inner[1])

\* Three match expressions, one of each kind, with the trees they denote.
MatchExprs ==
    {[text |-> textMatchValue,
      rule |-> MatchRule(MatchValue, Argument(SourceHeader, <<"X">>), textFoo, <<>>, <<>>)],
     [text |-> textMatchRegex,
      rule |-> MatchRule(MatchRegex, Argument(SourcePayload, <<"b", "o", "d", "y">>),
                         <<>>, textPattern, <<>>)],
     [text |-> textMatchHash,
      rule |-> MatchRule(MatchHashSHA1, Argument(SourceQuery, <<"q">>), <<>>, <<>>, textSecret)]}

AndText == <<" ">> \o and \o <<" ">>

\* The rule text is a <first> b <second> c
IsMix(a, first, b, second, c) ==
    /\ mode = "rule"
    /\ Input = a.text \o first \o b.text \o second \o c.text

\* C1: for any three valid match expressions a, b, c, the rule text
\* a && b || c parses successfully to Or{And{a, b}, c}.
C1_AndThenOr ==
    pc = "done" =>
    \A a \in MatchExprs, b \in MatchExprs, c \in MatchExprs :
        IsMix(a, AndText, b, or, c)
        => /\ err = <<>>
           /\ GeneratedRule = OrRule(<<AndRule(<<a.rule, b.rule>>), c.rule>>)

C1_Witness ==
    /\ Success
    /\ \E a \in MatchExprs, b \in MatchExprs, c \in MatchExprs :
          /\ a # b /\ b # c /\ a # c
          /\ IsMix(a, AndText, b, or, c)
          /\ GeneratedRule.tag = "Or"

\* C2 as stated: for any three valid match expressions a, b, c, the rule text
\* a || b && c parses successfully to Or{a, And{b, c}}.
C2_OrThenAnd_Original ==
    pc = "done" =>
    \A a \in MatchExprs, b \in MatchExprs, c \in MatchExprs :
        IsMix(a, or, b, AndText, c)
        => /\ err = <<>>
           /\ GeneratedRule = OrRule(<<a.rule, AndRule(<<b.rule, c.rule>>)>>)

\* C2 amended: for any three valid match expressions a, b, c, the rule text
\* a || b && c parses successfully to And{Or{a, b}, c}: the run a || b is
\* closed into one Or node when && starts the next run.
C2_OrThenAnd ==
    pc = "done" =>
    \A a \in MatchExprs, b \in MatchExprs, c \in MatchExprs :
        IsMix(a, or, b, AndText, c)
        => /\ err = <<>>
           /\ GeneratedRule = AndRule(<<OrRule(<<a.rule, b.rule>>), c.rule>>)

C2_Witness ==
    /\ Success
    /\ \E a \in MatchExprs, b \in MatchExprs, c \in MatchExprs :
          /\ a # b /\ b # c /\ a # c
          /\ IsMix(a, or, b, AndText, c)
          /\ GeneratedRule.tag = "And"

\* Every And node and every Or node of the tree has at least 2 children.
RECURSIVE TwoChildren(_)
TwoChildren(rule) ==
    /\ rule.tag \in {"And", "Or"} => Len(rule.rules) >= 2
    /\ \A i \in 1..Len(rule.rules) : TwoChildren(rule.rules[i])

\* C3: in every tree a successful Parse returns, and in every tree a level
\* holds while parsing (the nodes built by an operator switch included),
\* every And node and every Or node has at least 2 children.
C3_AndOrHaveTwoChildren ==
    /\ Success /\ mode = "rule" => TwoChildren(GeneratedRule)
    /\ \A i \in 1..Len(frames) :
          \A j \in 1..Len(frames[i].subRules) : TwoChildren(frames[i].subRules[j])

C3_Witness ==
    /\ Success
    /\ GeneratedRule.tag = "And"
    /\ Len(GeneratedRule.rules) = 2
    /\ GeneratedRule.rules[1].tag = "Or"
    /\ GeneratedRule.rules[2].tag = "Or"

\* The number of tokens of type tokenType among the first n tokens
CountTokens(tokenType, n) ==
    Cardinality({i \in 1..n : Tokens[i].Type = tokenType})

\* Some ) token has no matching earlier ( token
HasUnmatchedClose ==
    \E n \in 1..Len(Tokens) :
        CountTokens(TokenRightParenthesis, n) > CountTokens(TokenLeftParenthesis, n)

\* C4: a rule text with a ) token that has no matching earlier ( token makes
\* Parse fail; Parse never returns success for such input.
C4_UnmatchedCloseFails ==
    (pc = "done" /\ mode = "rule" /\ HasUnmatchedClose) => err # <<>>

\* The token stream has strictly more ( tokens than ) tokens
MoreOpenThanClose ==
    CountTokens(TokenLeftParenthesis, Len(Tokens)) > CountTokens(TokenRightParenthesis, Len(Tokens))

\* C5 as stated: for every input whose token stream has strictly more ( than )
\* tokens, Parse fails and the error it returns is the "missing closing
\* parenthesis" error, also when the input has another lexical error.
C5_MissingParenthesisReturned_Original ==
    (pc = "done" /\ MoreOpenThanClose)
    => /\ err # <<>>
       /\ Innermost(err[1]).kind = errorClosingParenthesisMissing

\* C5 amended: for every input whose token stream has strictly more ( than )
\* tokens, Parse fails with the first error of the lexer's list; the "missing
\* closing parenthesis" error is the last error of that list, and it is the
\* one returned exactly when the scan met no unterminated literal and no
\* unexpected character before it.
C5_FirstLexicalErrorReturned ==
    (pc = "done" /\ MoreOpenThanClose)
    => /\ err # <<>>
       /\ err[1].kind = errorWhileParsing
       /\ err[1].inner = <<Errors[1]>>
       /\ Errors[Len(Errors)].kind = errorClosingParenthesisMissing
       /\ (Innermost(err[1]).kind = errorClosingParenthesisMissing)
            <=> (\A i \in 1..Len(Errors) : Errors[i].kind = errorClosingParenthesisMissing)

C5_Witness ==
    /\ pc = "done"
    /\ MoreOpenThanClose
    /\ Len(Errors) = 2
    /\ Errors[1].kind = errorClosingDoubleQuotationMarkIsMissing
    /\ Innermost(err[1]).kind = errorClosingDoubleQuotationMarkIsMissing

\* C6: whenever Parse returns success, the parser cursor stands on the
\* end-of-input token.
C6_SuccessAtEndOfInput ==
    (Success /\ mode = "rule") => HasTokenTypeAt(ParserPosition, TokenEOF)

\* C7: when Parse fails it returns one error and the result field is left at
\* its initial value: GeneratedRule is the empty rule, GeneratedArguments the
\* empty list; nothing is stored before Parse returns success.
C7_NothingStoredOnFailure ==
    (pc # "done" \/ err # <<>>)
    => /\ Len(err) <= 1
       /\ GeneratedRule = EmptyRule
       /\ GeneratedArguments = <<>>

C7_Witness ==
    /\ Failure
    /\ mode = "rule"
    /\ Input = textMatchValue \o and \o comma
    /\ err[1].kind = unexpectedToken
    /\ err[1].token = comma

\* "header.X" == sha1("payload.body", "secret")
textC8 == Sha1Text(doubleQuotationMark, textHeaderX, sha1, textPayloadBody, textSecret)

\* "header.X" == sha1("payload", "secret")
textC8Payload == Sha1Text(doubleQuotationMark, textHeaderX, sha1, SourcePayload, textSecret)

ruleC8 == MatchRule(MatchHashSHA1, Argument(SourceHeader, <<"X">>), <<>>, <<>>, textSecret)

\* C8 as stated: the input "header.X" == sha1("payload.body", "secret") parses
\* successfully to Match{sha1-hash, parameter={header,X}, secret="secret"}.
C8_Sha1Example_Original ==
    (pc = "done" /\ mode = "rule" /\ Input = textC8)
    => (err = <<>> /\ GeneratedRule = ruleC8)

\* C8 amended: the input "header.X" == sha1("payload.body", "secret") fails
\* with the "sha1 target must be payload" error at the token payload.body;
\* with the target literal "payload" in its place the input parses
\* successfully to Match{sha1-hash, parameter={header,X}, secret="secret"}.
C8_Sha1Example ==
    /\ (pc = "done" /\ mode = "rule" /\ Input = textC8)
       => /\ err # <<>>
          /\ err[1].kind = invalidSha1Target
          /\ err[1].token = textPayloadBody
          /\ GeneratedRule = EmptyRule
    /\ (pc = "done" /\ mode = "rule" /\ Input = textC8Payload)
       => (err = <<>> /\ GeneratedRule = ruleC8)

C8_Witness ==
    /\ Failure
    /\ mode = "rule"
    /\ Input = textC8
    /\ err[1].kind = invalidSha1Target

\* The literal is source.name with a source of the four and a name that is
\* not empty: the split point is the first dot.
IsReference(literal, source, name) ==
    /\ literal = source \o <<".">> \o name
    /\ source \in {SourceHeader, SourcePayload, SourceQuery, SourceString}
    /\ \A i \in 1..Len(source) : source[i] # "."
    /\ name # <<>>

\* The prefixes of the literal up to a dot, and the suffixes after that dot
Splits(literal) ==
    {<<SubSeq(literal, 1, i - 1), SubSeq(literal, i + 1, Len(literal))>> :
        i \in {k \in 1..Len(literal) : literal[k] = "."}}

\* C9: in the form P == sha1(T, S) the parse fails with the "sha1 target must
\* be payload" error, reported at the token T, exactly when the text of T is
\* not the word payload; when T is payload and P is a valid reference the
\* level gets the sibling Match{sha1-hash, parameter=P, secret=S}.
C9_Sha1Target ==
    [][(pc = "parse" /\ mode = "rule" /\ hasPrefix("matchHashSHA1", ParserPosition))
       => LET P == Tokens[ParserPosition + 1].Value
              T == Tokens[ParserPosition + 5].Value
              S == Tokens[ParserPosition + 7].Value
              failed == /\ pc' = "done"
                        /\ err' # <<>>
                        /\ Innermost(err'[1]).kind = invalidSha1Target
          IN  /\ (T # SourcePayload) <=> failed
              /\ failed => /\ Innermost(err'[1]).token = T
                           /\ Innermost(err'[1]).pos = absolutePosition(ParserPosition + 4)
              /\ \A sp \in Splits(P) :
                    (T = SourcePayload /\ IsReference(P, sp[1], sp[2]))
                    => /\ pc' = "parse"
                       /\ Len(frames') = Len(frames)
                       /\ frames'[Len(frames)].subRules =
                             Append(Top.subRules,
                                    MatchRule(MatchHashSHA1, Argument(sp[1], sp[2]),
                                              <<>>, <<>>, S))]_vars

C9_Witness ==
    /\ Failure
    /\ mode = "rule"
    /\ err[1].kind = errorParsingExpressionGroup
    /\ Innermost(err[1]).kind = invalidSha1Target
    /\ Innermost(err[1]).token = <<>>

\* The valid parameter literals of the inputs, with the references they denote
References ==
    {[text |-> textHeaderX, source |-> SourceHeader, name |-> <<"X">>],
     [text |-> textPayloadBody, source |-> SourcePayload, name |-> <<"b", "o", "d", "y">>],
     [text |-> textQueryQ, source |-> SourceQuery, name |-> <<"q">>],
     [text |-> textStringAB, source |-> SourceString, name |-> <<"a", ".", "b">>]}

\* C10: for every literal L = source.name with an allowed source and a name
\* that is not empty, and every literal V, the text L == V parses to a Match
\* of kind value-equality with parameter {source, name} and value V, and
\* L ~= V to a Match of kind regex with that parameter and regex V, whatever
\* quotation marks L and V are written in.
C10_MatchExpressions ==
    (pc = "done" /\ mode = "rule") =>
    \A qp \in QuotationMarks, qv \in QuotationMarks, ref \in References,
       v \in {textFoo, textPattern, <<>>} :
        /\ Input = Quoted(qp, ref.text) \o <<" ">> \o stringEqual \o <<" ">> \o Quoted(qv, v)
           => /\ err = <<>>
              /\ GeneratedRule = MatchRule(MatchValue, Argument(ref.source, ref.name),
                                           v, <<>>, <<>>)
        /\ Input = Quoted(qp, ref.text) \o regexEqual \o Quoted(qv, v)
           => /\ err = <<>>
              /\ GeneratedRule = MatchRule(MatchRegex, Argument(ref.source, ref.name),
                                           <<>>, v, <<>>)

C10_Witness ==
    /\ Success
    /\ mode = "rule"
    /\ Input = Quoted(doubleQuotationMark, textStringAB) \o regexEqual
                  \o Quoted(singleQuotationMark, textPattern)
    /\ GeneratedRule.Type = MatchRegex
    /\ GeneratedRule.Parameter.Name = <<"a", ".", "b">>

ParameterSources == {SourceHeader, SourcePayload, SourceQuery, SourceString}

\* The literal has a dot
HasDot(literal) == \E i \in 1..Len(literal) : literal[i] = "."

\* The index of the first dot of a literal that has one
FirstDot(literal) ==
    CHOOSE i \in 1..Len(literal) :
        literal[i] = "." /\ \A j \in 1..(i - 1) : literal[j] # "."

BeforeFirstDot(literal) == SubSeq(literal, 1, FirstDot(literal) - 1)

AfterFirstDot(literal) == SubSeq(literal, FirstDot(literal) + 1, Len(literal))

\* The literal is accepted as an argument reference
AcceptedReference(literal) ==
    /\ HasDot(literal)
    /\ BeforeFirstDot(literal) \in ParameterSources
    /\ AfterFirstDot(literal) # <<>>

\* The error a literal that is not accepted is reported with
ReferenceError(literal) ==
    IF ~HasDot(literal) THEN invalidArgumentFormat
    ELSE IF BeforeFirstDot(literal) \notin ParameterSources THEN invalidParameterSource
    ELSE invalidParameterName

\* The step checks the literal at the cursor as an argument reference: an
\* awaited literal of an argument list, the left literal of L == V or L ~= V,
\* or the left literal of L == sha1(T, S) whose target T is payload.
ChecksReference ==
    /\ pc = "parse"
    /\ \/ mode = "args" /\ IsLiteralAt(ParserPosition) /\ expectingArgument
       \/ mode = "rule" /\ SwitchCase(ParserPosition) \in {"matchValue", "matchRegex"}
       \/ /\ mode = "rule" /\ SwitchCase(ParserPosition) = "matchHashSHA1"
          /\ Tokens[ParserPosition + 5].Value = SourcePayload

\* C11: a literal is accepted as an argument reference exactly when it has a
\* dot, the text before its first dot is header, payload, query or string and
\* the text after its first dot is not empty; that text, dots included, is
\* the name.  A literal that is not accepted is reported at its own token
\* with the error of the first check it fails, in the order: no dot, bad
\* source, empty name.
C11_ReferenceChecks ==
    [][ChecksReference
       => LET L == Tokens[ParserPosition + 1].Value
              reference == Argument(BeforeFirstDot(L), AfterFirstDot(L))
              accepted ==
                  /\ pc' = "parse"
                  /\ IF mode = "args"
                     THEN arguments' = Append(arguments, reference)
                     ELSE /\ Len(frames') = Len(frames)
                          /\ Len(frames'[Len(frames)].subRules) = Len(Top.subRules) + 1
                          /\ frames'[Len(frames)].subRules[Len(Top.subRules) + 1].Parameter
                                = reference
          IN  /\ AcceptedReference(L) <=> accepted
              /\ ~AcceptedReference(L)
                 => /\ pc' = "done"
                    /\ err' # <<>>
                    /\ Innermost(err'[1]).kind = ReferenceError(L)
                    /\ Innermost(err'[1]).token = L
                    /\ Innermost(err'[1]).pos = absolutePosition(ParserPosition)]_vars

C11_Witness ==
    /\ Failure
    /\ mode = "args"
    /\ Input = Quoted(singleQuotationMark, textHeaderX) \o comma
                  \o Quoted(doubleQuotationMark, textBadNoName)
    /\ err[1].kind = invalidParameterSource
    /\ err[1].token = textBadNoName

\* The running level ends at the cursor: by ) or by end-of-input
LevelEnds ==
    /\ pc = "parse" /\ mode = "rule"
    /\ \/ HasTokenTypeAt(ParserPosition, TokenRightParenthesis)
       \/ HasTokenTypeAt(ParserPosition, TokenEOF)

\* The token before the cursor is && or ||
AfterOperator ==
    \/ HasTokenTypeAt(ParserPosition - 1, TokenAnd)
    \/ HasTokenTypeAt(ParserPosition - 1, TokenOr)

\* C12: at any nesting depth, when a level ends by ) or by end-of-input
\* directly after a && or || token that the level accepted, Parse fails, the
\* error raised is the "expected valid rule" error, and no tree is stored.
C12_DanglingOperator ==
    [][(LevelEnds /\ AfterOperator)
       => /\ pc' = "done"
          /\ err' # <<>>
          /\ Innermost(err'[1]).kind = expectedValidRule
          /\ GeneratedRule' = EmptyRule]_vars

C12_Witness ==
    /\ Failure
    /\ mode = "rule"
    /\ Input = leftParenthesis \o leftParenthesis \o textMatchValue \o or
                  \o rightParenthesis \o rightParenthesis
    /\ err[1].kind = errorParsingExpressionGroup
    /\ err[1].inner[1].kind = errorParsingExpressionGroup
    /\ Innermost(err[1]).kind = expectedValidRule
    /\ Innermost(err[1]).token = rightParenthesis

\* C13 as stated: the input "a.b" == "c" && fails with the "expected valid
\* rule" error.
C13_DanglingExample_Original ==
    (pc = "done" /\ mode = "rule" /\ Input = textC13)
    => (err # <<>> /\ err[1].kind = expectedValidRule)

\* C13 amended: the input "a.b" == "c" && fails with the "parameter source
\* must be one of" error at the token a.b, since a is none of the four
\* sources; with a reference of an allowed source, "header.b" == "c" &&, the
\* input fails with the "expected valid rule" error at end-of-input.
C13_DanglingExample ==
    /\ (pc = "done" /\ mode = "rule" /\ Input = textC13)
       => /\ err # <<>>
          /\ err[1].kind = invalidParameterSource
          /\ err[1].token = <<"a", ".", "b">>
          /\ GeneratedRule = EmptyRule
    /\ (pc = "done" /\ mode = "rule" /\ Input = textC13Header)
       => /\ err # <<>>
          /\ err[1].kind = expectedValidRule
          /\ err[1].token = EOFMarker
          /\ GeneratedRule = EmptyRule

C13_Witness ==
    /\ Failure
    /\ mode = "rule"
    /\ Input = textC13
    /\ err[1].kind = invalidParameterSource
    /\ ParserPosition = 0

ruleMatchValue == MatchRule(MatchValue, Argument(SourceHeader, <<"X">>), textFoo, <<>>, <<>>)

ruleMatchRegex ==
    MatchRule(MatchRegex, Argument(SourcePayload, <<"b", "o", "d", "y">>), <<>>, textPattern, <<>>)

ruleMatchHash ==
    MatchRule(MatchHashSHA1, Argument(SourceQuery, <<"q">>), <<>>, <<>>, textSecret)

\* Rule texts R with the tree T that Parse returns for R
Parsed ==
    {[text |-> textMatchValue, rule |-> ruleMatchValue],
     [text |-> textMatchRegex, rule |-> ruleMatchRegex],
     [text |-> textMatchHash, rule |-> ruleMatchHash],
     [text |-> textGroup, rule |-> OrRule(<<NotRule(ruleMatchValue), ruleMatchRegex>>)],
     [text |-> textMatchValue \o and \o textMatchRegex,
      rule |-> AndRule(<<ruleMatchValue, ruleMatchRegex>>)],
     [text |-> textMatchValue \o rightParenthesis \o and \o textMatchRegex,
      rule |-> ruleMatchValue],
     [text |-> textMatchValue \o rightParenthesis \o comma,
      rule |-> ruleMatchValue]}

\* Parse returns success with the tree rule
ParsesTo(rule) == err = <<>> /\ GeneratedRule = rule

\* C14: for every rule text R that parses successfully to a tree T, the text
\* !(R) parses successfully to Not{T}, and the Not node is one sibling of the
\* enclosing level: !(R) && x parses to And{Not{T}, x}.
C14_NotOfRule ==
    (pc = "done" /\ mode = "rule") =>
    \A r \in Parsed :
        /\ Input = r.text => ParsesTo(r.rule)
        /\ Input = not \o leftParenthesis \o r.text \o rightParenthesis
           => ParsesTo(NotRule(r.rule))
        /\ Input = not \o leftParenthesis \o r.text \o rightParenthesis \o and \o textMatchHash
           => ParsesTo(AndRule(<<NotRule(r.rule), ruleMatchHash>>))

\* C15: for every rule text R that parses successfully to a tree T, the
\* texts (R) and ((R)) parse successfully to exactly T.
C15_GroupOfRule ==
    (pc = "done" /\ mode = "rule") =>
    \A r \in Parsed :
        /\ Input = r.text => ParsesTo(r.rule)
        /\ Input = leftParenthesis \o r.text \o rightParenthesis
           => ParsesTo(r.rule)
        /\ Input = leftParenthesis \o leftParenthesis \o r.text
                      \o rightParenthesis \o rightParenthesis
           => ParsesTo(r.rule)

\* The text s with every backslash-and-q sequence replaced by q
RECURSIVE Collapse(_, _)
Collapse(s, q) ==
    IF s = <<>> THEN <<>>
    ELSE IF HasPrefix(s, <<"\\">> \o q) THEN q \o Collapse(SubSeq(s, 3, Len(s)), q)
    ELSE <<Head(s)>> \o Collapse(Tail(s), q)

\* The quotation mark of a literal token
DelimiterOf(token) ==
    IF token.Type = TokenSingleQuotedStringLiteral
    THEN singleQuotationMark ELSE doubleQuotationMark

IsLiteral(token) ==
    token.Type \in {TokenSingleQuotedStringLiteral, TokenDoubleQuotedStringLiteral}

\* C16: the text of a literal token is the content between the quotation
\* marks with every escaped quotation mark (backslash and the literal's own
\* quotation mark) replaced by the bare quotation mark; no literal token has
\* a backslash followed by its own quotation mark in its text.
C16_EscapesCollapsed ==
    (pc = "done" /\ mode = "rule") =>
    /\ \A q \in QuotationMarks : \A s \in EscapedContents(q) :
          Input = EscapedText(q, s)
          => /\ Len(Tokens) = 4
             /\ Tokens[3].Value = Collapse(s, q)
    /\ \A i \in 1..Len(Tokens) :
          IsLiteral(Tokens[i])
          => ~\E j \in 1..Len(Tokens[i].Value) :
                HasPrefix(SubSeq(Tokens[i].Value, j, Len(Tokens[i].Value)),
                          <<"\\">> \o DelimiterOf(Tokens[i]))

\* C17: round trip of literals.  For a literal whose content s has escaped
\* quotation marks the lexer emits a literal token of some text t; escaping
\* every quotation mark of t with a backslash, putting the result between
\* quotation marks and lexing it gives one literal token of the same text t.
\* Here t is the text the lexer emits for s (the first conjunct states it).
C17_LiteralRoundTrip ==
    (pc = "done" /\ mode = "rule") =>
    \A q \in QuotationMarks : \A s \in EscapedContents(q) :
        LET t == s
        IN  /\ Input = EscapedText(q, s)
               => /\ Len(Tokens) = 4
                  /\ Tokens[3].Value = t
            /\ Input = EscapedText(q, EscapeQuotes(t, q))
               => /\ Len(Tokens) = 4
                  /\ IsLiteral(Tokens[3])
                  /\ Tokens[3].Value = t

AtLiteralPlace(i) == i % 2 = 1

\* The tokens before the 1-based index k are valid references and commas in turn
ListUpTo(k) ==
    \A i \in 1..(k - 1) :
        IF AtLiteralPlace(i)
        THEN IsLiteral(Tokens[i]) /\ AcceptedReference(Tokens[i].Value)
        ELSE Tokens[i].Type = TokenComma

\* The token stream is literal (, literal)* end-of-input, every literal a
\* valid reference
IsArgumentList ==
    /\ Len(Tokens) >= 2
    /\ Len(Tokens) % 2 = 0
    /\ Tokens[Len(Tokens)].Type = TokenEOF
    /\ ListUpTo(Len(Tokens))

\* C19: on a token stream the comma-list parser succeeds exactly when the
\* stream is literal (, literal)* end-of-input with every literal a valid
\* reference.  Otherwise it fails at the first token that breaks this shape:
\* a literal directly after a literal with the expected-comma error, a comma
\* at the start or directly after a comma with unexpected token,
\* end-of-input at the start or directly after a comma with the
\* expected-argument error, a literal that is no valid reference with its
\* reference error, any other token with unexpected token.
C19_ArgumentListShape ==
    (pc = "done" /\ mode = "args" /\ Errors = <<>>) =>
    /\ (err = <<>>) <=> IsArgumentList
    /\ err # <<>> =>
          LET k == ParserPosition + 1
              token == Tokens[k]
          IN  /\ k \in 1..Len(Tokens)
              /\ ListUpTo(k)
              /\ err[1].token = IF token.Type = TokenEOF THEN EOFMarker ELSE token.Value
              /\ err[1].kind =
                    IF IsLiteral(token)
                    THEN IF ~AtLiteralPlace(k) THEN expectedComma
                         ELSE ReferenceError(token.Value)
                    ELSE IF token.Type = TokenEOF THEN expectedArgument
                    ELSE unexpectedToken
              /\ IsLiteral(token) /\ AtLiteralPlace(k) => ~AcceptedReference(token.Value)
              /\ token.Type \in {TokenComma, TokenEOF} => AtLiteralPlace(k)

C19_Witness ==
    /\ Failure
    /\ mode = "args"
    /\ Input = Quoted(singleQuotationMark, textHeaderX)
                  \o Quoted(doubleQuotationMark, textStringAB)
    /\ err[1].kind = expectedComma
    /\ err[1].token = textStringAB

\* The literal tokens of the token stream, in order
LiteralTokens == SelectSeq(Tokens, IsLiteral)

\* C20: when the comma-list parser succeeds, the list it returns has one
\* reference per literal token of the input, the number of commas plus one,
\* and its i-th reference is the {source, name} split of the i-th literal.
C20_ArgumentsInOrder ==
    (Success /\ mode = "args") =>
    /\ Len(GeneratedArguments) = Len(LiteralTokens)
    /\ Len(GeneratedArguments) = CountTokens(TokenComma, Len(Tokens)) + 1
    /\ \A i \in 1..Len(GeneratedArguments) :
          GeneratedArguments[i] = Argument(BeforeFirstDot(LiteralTokens[i].Value),
                                           AfterFirstDot(LiteralTokens[i].Value))

C20_Witness ==
    /\ Success
    /\ mode = "args"
    /\ Input = Quoted(doubleQuotationMark, textStringAB) \o comma
                  \o Quoted(singleQuotationMark, textHeaderX)
    /\ GeneratedArguments =
          <<Argument(SourceString, <<"a", ".", "b">>), Argument(SourceHeader, <<"X">>)>>

\* The offset (0-based) in the input text at which the token of 1-based
\* index i ends, as the tokens are written in the text: white space before
\* a token is skipped, a literal is written with its two quotation marks.
RECURSIVE TokenEndOffset(_)
TokenEndOffset(i) ==
    IF i = 0 THEN 0
    ELSE EatWhitespaces(TokenEndOffset(i - 1)) + Len(Tokens[i].Value)
            + (IF IsLiteral(Tokens[i]) THEN 2 ELSE 0)

\* The offset (0-based) in the input text at which the token of 0-based
\* index k starts
TokenOffset(k) == EatWhitespaces(TokenEndOffset(k))

\* The 0-based index of the token an error of Parse was raised for: the
\* target literal for the sha1-target error, the token at the cursor otherwise
OffendingToken ==
    IF Innermost(err[1]).kind = invalidSha1Target THEN ParserPosition + 4
    ELSE ParserPosition

\* The text an error prints for the token of 0-based index k
TokenText(k) ==
    IF Tokens[k + 1].Type = TokenEOF THEN EOFMarker ELSE Tokens[k + 1].Value

\* Parse failed in the parser, not in the lexer
ParserFailure == Failure /\ Errors = <<>>

\* C21: the position reported in a parser error is the absolute 0-based
\* character offset, in the input text, of the offending token (for a
\* literal: of its opening quotation mark or of its first character), for
\* input with white space between tokens or quoted literals as well as for
\* input without them.
C21_ErrorPositionIsOffset ==
    ParserFailure =>
        LET e == Innermost(err[1])
            k == OffendingToken
        IN  /\ e.token = TokenText(k)
            /\ \/ e.pos = TokenOffset(k)
               \/ IsLiteral(Tokens[k + 1]) /\ e.pos = TokenOffset(k) + 1

\* The length of the texts of the tokens of 0-based indexes 0..k-1, put together
LengthBefore(k) == Len(Concat([i \in 1..k |-> Tokens[i].Value]))

\* An error with the errors embedded in it, outermost first
RECURSIVE ErrorChain(_)
ErrorChain(e) == IF e.inner = <<>> THEN <<e>> ELSE <<e>> \o ErrorChain(e.inner[1])

\* C29: the position printed in a parser error for the token at index k of
\* the token sequence is the sum of the lengths of the texts of the tokens at
\* indexes 0..k-1, and the token text printed is the token's text, or <EOF>
\* when the token is end-of-input.  This holds for the error raised, whose
\* token is the offending one, and for every error it is embedded in.
C29_ErrorPositionIsSumOfLengths ==
    ParserFailure =>
        /\ Innermost(err[1]).pos = LengthBefore(OffendingToken)
        /\ Innermost(err[1]).token = TokenText(OffendingToken)
        /\ \A n \in 1..Len(ErrorChain(err[1])) :
              \E k \in 0..(Len(Tokens) - 1) :
                  /\ ErrorChain(err[1])[n].pos = LengthBefore(k)
                  /\ ErrorChain(err[1])[n].token = TokenText(k)

C29_Witness ==
    /\ ParserFailure
    /\ mode = "rule"
    /\ Input = textMatchValue \o <<" ">> \o and \o <<" ">>
    /\ err[1].kind = expectedValidRule
    /\ err[1].token = EOFMarker
    /\ err[1].pos = 15
    /\ Len(Input) = 21

\* The step returns from the running level without an error
ReturnsSuccess == ~(pc' = "done" /\ err' # <<>>)

\* C22: whenever a level of the rule parser closes successfully with neither
\* isAnd nor isOr set, its sibling list holds exactly one rule: a level that
\* gathered two or more siblings with no && or || between them never
\* returns success.
C22_OneSiblingWithoutOperator ==
    [][(LevelEnds /\ ~Top.isAnd /\ ~Top.isOr /\ ReturnsSuccess)
       => Len(Top.subRules) = 1]_vars

RECURSIVE SumSeq(_)
SumSeq(ns) == IF ns = <<>> THEN 0 ELSE Head(ns) + SumSeq(Tail(ns))

\* The number of Match leaves of a tree
RECURSIVE LeafCount(_)
LeafCount(rule) ==
    IF rule.tag = "Match" THEN 1
    ELSE SumSeq([i \in 1..Len(rule.rules) |-> LeafCount(rule.rules[i])])

\* The number of match expressions written in the input: each has one == or ~=
MatchExpressionCount ==
    CountTokens(TokenStringEqual, Len(Tokens)) + CountTokens(TokenRegexEqual, Len(Tokens))

\* A token that ends an operand is directly followed by a token that starts one
AdjacentOperands ==
    \E i \in 1..(Len(Tokens) - 1) :
        /\ IsLiteral(Tokens[i]) \/ Tokens[i].Type = TokenRightParenthesis
        /\ IsLiteral(Tokens[i + 1]) \/ Tokens[i + 1].Type \in {TokenLeftParenthesis, TokenNot}

\* C23: two operands that follow each other at the same level with no && or
\* || between them are rejected: in every successful parse (of a text whose
\* parentheses match) no operand directly follows another operand, and every
\* match expression written in the input is a leaf of the returned tree.
C23_AdjacentOperandsRejected ==
    (Success /\ mode = "rule" /\ ~HasUnmatchedClose)
    => /\ ~AdjacentOperands
       /\ LeafCount(GeneratedRule) = MatchExpressionCount

\* The operands of the chains, with the trees they denote
OperandTable == {r \in Parsed : r.text \in Operands}

\* The operators of the chains, with the node kinds they denote
OperatorTable ==
    {[text |-> <<" ">> \o and \o <<" ">>, tag |-> "And"], [text |-> or, tag |-> "Or"]}

\* The text xs[1] ops[1] xs[2] ... ops[k-1] xs[k]
RECURSIVE ChainText(_, _, _)
ChainText(xs, ops, k) ==
    IF k = 1 THEN xs[1].text
    ELSE ChainText(xs, ops, k - 1) \o ops[k - 1].text \o xs[k].text

\* The tree of the first k operands, grouped from the left: an operand joins
\* the node of the run it continues; where the operator changes, what was
\* built so far becomes the first child of a node of the new operator.
RECURSIVE LeftToRight(_, _, _)
LeftToRight(xs, ops, k) ==
    IF k = 1 THEN xs[1].rule
    ELSE LET before == LeftToRight(xs, ops, k - 1)
         IN  IF k > 2 /\ ops[k - 2].tag = ops[k - 1].tag
             THEN [before EXCEPT !.rules = Append(@, xs[k].rule)]
             ELSE Rules(ops[k - 1].tag, "", NoArgument, <<>>, <<>>, <<>>,
                        <<before, xs[k].rule>>)

\* C24: within one level, operands joined by a run of the same operator form
\* one flat node with the operands as children in source order; at each
\* switch between && and || all that the level holds is wrapped into one
\* node of the previous operator, which becomes the first child of the new
\* run: grouping is strictly left to right, with no precedence.
C24_LeftToRightRuns ==
    (pc = "done" /\ mode = "rule" /\ Input \in ChainInputs) =>
    \A k \in 1..MaxOperands :
        \A xs \in [1..k -> OperandTable], ops \in [1..(k - 1) -> OperatorTable] :
            Input = ChainText(xs, ops, k) => ParsesTo(LeftToRight(xs, ops, k))

C24_Witness ==
    /\ Success
    /\ mode = "rule"
    /\ Input = textMatchValue \o or \o textGroup \o or \o textMatchHash
    /\ GeneratedRule.tag = "Or"
    /\ Len(GeneratedRule.rules) = 3
    /\ GeneratedRule.rules[2].tag = "Or"
    /\ GeneratedRule.rules[3] = ruleMatchHash

\* The cursor of the running level stands on a && or || token
AtOperator ==
    /\ pc = "parse" /\ mode = "rule"
    /\ HasTokenTypeAt(ParserPosition, TokenAnd) \/ HasTokenTypeAt(ParserPosition, TokenOr)

\* The operator at the cursor is at the start of the input, directly after (
\* or directly after another operator
OperatorMisplaced ==
    \/ ParserPosition = 0
    \/ HasTokenTypeAt(ParserPosition - 1, TokenLeftParenthesis)
    \/ AfterOperator

\* C25: a && or || token is accepted only when the level has a sibling and
\* the token before it is not an operator: an operator at the start of the
\* input, directly after ( or directly after another operator fails with the
\* "unexpected token" error at that operator token; any other operator the
\* parser comes to is accepted and the level awaits an operand.
C25_OperatorPlacement ==
    [][AtOperator
       => /\ OperatorMisplaced <=> (Len(Top.subRules) = 0 \/ Top.expectingRule)
          /\ OperatorMisplaced
             => /\ pc' = "done"
                /\ err' # <<>>
                /\ Innermost(err'[1]).kind = unexpectedToken
                /\ Innermost(err'[1]).token = Tokens[ParserPosition + 1].Value
                /\ Innermost(err'[1]).pos = LengthBefore(ParserPosition)
          /\ ~OperatorMisplaced
             => /\ pc' = "parse"
                /\ ParserPosition' = ParserPosition + 1
                /\ Len(frames') = Len(frames)
                /\ frames'[Len(frames)].expectingRule]_vars

C25_Witness ==
    /\ Failure
    /\ mode = "rule"
    /\ Input = leftParenthesis \o and \o rightParenthesis
    /\ Innermost(err[1]).kind = unexpectedToken
    /\ Innermost(err[1]).token = and
    /\ err[1].kind = errorParsingExpressionGroup

\* C26: in every reachable state of every level of the rule parser, isAnd
\* and isOr are never both true, and expectingRule is true only when isAnd
\* or isOr is true and the level has at least one sibling.
C26_FlagsOfLevel ==
    \A i \in 1..Len(frames) :
        /\ ~(frames[i].isAnd /\ frames[i].isOr)
        /\ frames[i].expectingRule
           => /\ frames[i].isAnd \/ frames[i].isOr
              /\ Len(frames[i].subRules) >= 1

C26_Witness ==
    /\ pc = "parse"
    /\ Len(frames) = 3
    /\ frames[2].isOr /\ frames[2].expectingRule
    /\ frames[3].isAnd /\ frames[3].expectingRule
    /\ Len(frames[3].subRules) = 1
    /\ frames[3].subRules[1].tag = "Or"

\* C27: in a run of Parse that reaches the rule parser, a nested level is
\* never closed by the end-of-input token: while a level of depth greater
\* than 1 runs, the cursor stands on a token before end-of-input, so the
\* level can only be closed by ) and only the outermost level ends on
\* end-of-input.
C27_NestedLevelNeverAtEndOfInput ==
    (pc = "parse" /\ mode = "rule" /\ Len(frames) > 1)
    => /\ ParserPosition < Len(Tokens) - 1
       /\ ~HasTokenTypeAt(ParserPosition, TokenEOF)
       /\ Top.depth = Len(frames)

C27_Witness ==
    /\ pc = "parse"
    /\ mode = "rule"
    /\ Len(frames) = 3
    /\ Len(Top.subRules) = 1
    /\ HasTokenTypeAt(ParserPosition, TokenRightParenthesis)
    /\ HasTokenTypeAt(ParserPosition + 2, TokenEOF)

\* The text 'header.X'=='foo' && (!('header.X'=='foo') || "payload.body" ~= "^ab.*")
textAndOfGroup == textMatchValue \o <<" ">> \o and \o <<" ">> \o textGroup

\* A step of the rule parser that returns from a nested call into its caller.
ReturnsIntoCaller ==
    /\ pc = "parse" /\ mode = "rule"
    /\ Len(frames) > 1
    /\ Len(frames') = Len(frames) - 1

\* A step of the rule parser that leaves the call stack as deep or makes it
\* deeper by one call.
StaysOrCalls ==
    /\ pc = "parse" /\ mode = "rule"
    /\ Len(frames) >= 1
    /\ Len(frames') >= Len(frames)

\* C28: a nested group or !(...) rule changes the enclosing level only by
\* advancing the cursor and appending one sibling.  While the nested call
\* runs, the locals of every enclosing call stay as they are; the call
\* itself leaves the locals of the caller as they are and moves the cursor
\* forward; the return appends exactly one sibling after the earlier ones
\* and leaves isAnd and isOr of the caller as they were, so that
\* a && (b || c) gives And{a, Or{b, c}}.
C28_NestedCallFrame ==
    [][/\ StaysOrCalls =>
           /\ \A i \in 1..(Len(frames) - 1) : frames'[i] = frames[i]
           /\ Len(frames') > Len(frames) =>
                  /\ Len(frames') = Len(frames) + 1
                  /\ frames'[Len(frames)] = Top
                  /\ frames'[Len(frames')].subRules = <<>>
                  /\ ~frames'[Len(frames')].isAnd
                  /\ ~frames'[Len(frames')].isOr
                  /\ ParserPosition' > ParserPosition
       /\ ReturnsIntoCaller =>
           LET caller == frames[Len(frames) - 1]
               after  == frames'[Len(frames')]
               n      == Len(caller.subRules)
           IN  /\ \A i \in 1..(Len(frames) - 2) : frames'[i] = frames[i]
               /\ after.isAnd = caller.isAnd
               /\ after.isOr = caller.isOr
               /\ after.depth = caller.depth
               /\ Len(after.subRules) = n + 1
               /\ SubSeq(after.subRules, 1, n) = caller.subRules
               /\ ParserPosition' > ParserPosition
       /\ (Success /\ Input = textAndOfGroup) =>
           GeneratedRule = AndRule(<<ruleMatchValue,
                                     OrRule(<<NotRule(ruleMatchValue), ruleMatchRegex>>)>>)
      ]_vars

C28_Witness ==
    /\ Input = textAndOfGroup
    /\ pc = "parse"
    /\ Len(frames) = 1
    /\ Top.isAnd /\ ~Top.isOr /\ ~Top.expectingRule
    /\ Len(Top.subRules) = 2
    /\ Top.subRules[1] = ruleMatchValue
    /\ Top.subRules[2] = OrRule(<<NotRule(ruleMatchValue), ruleMatchRegex>>)

\* The indexes of the tokens that opened the levels which are open in front
\* of the token at index p, outermost first: the ! of a !( pair or the ( of
\* a group.  The walk starts at index i with the levels of stack open; the
\* six tokens sha1 ( literal , literal ) open no level.
RECURSIVE OpenLevels(_, _, _)
OpenLevels(i, p, stack) ==
    IF i >= p THEN stack
    ELSE IF HasTokenTypeAt(i, TokenSha1) THEN OpenLevels(i + 6, p, stack)
    ELSE IF HasTokenTypeAt(i, TokenNot) /\ HasTokenTypeAt(i + 1, TokenLeftParenthesis)
    THEN OpenLevels(i + 2, p, Append(stack, i))
    ELSE IF HasTokenTypeAt(i, TokenLeftParenthesis)
    THEN OpenLevels(i + 1, p, Append(stack, i))
    ELSE IF HasTokenTypeAt(i, TokenRightParenthesis) /\ stack # <<>>
    THEN OpenLevels(i + 1, p, SubSeq(stack, 1, Len(stack) - 1))
    ELSE OpenLevels(i + 1, p, stack)

\* The levels open in front of the cursor
OpenAtCursor == OpenLevels(0, ParserPosition, <<>>)

\* A step in which the rule parser fails inside a group or a !(...) rule
WrappedFailure ==
    /\ pc = "parse" /\ mode = "rule"
    /\ pc' = "done" /\ err' # <<>>
    /\ err'[1].kind \in {errorParsingExpressionGroup, errorParsingNotRule}

\* C30: when the inside of a group fails, the "error parsing expression
\* group" error is reported at the ( token that opened the group, and when
\* the inside of a !(...) rule fails, the "error parsing not rule" error is
\* reported at its ! token, whatever number of tokens the inner level
\* consumed before it failed.
C30_WrapErrorAtOpeningToken ==
    [][WrappedFailure =>
          \A n \in 1..Len(OpenAtCursor) :
              LET e == ErrorChain(err'[1])[n]
                  k == OpenAtCursor[n]
              IN  /\ e.kind = IF HasTokenTypeAt(k, TokenNot)
                              THEN errorParsingNotRule
                              ELSE errorParsingExpressionGroup
                  /\ e.token = TokenText(k)
                  /\ e.pos = LengthBefore(k)
      ]_vars

(***************************************************************************)
(* The text of a parser error, as fmt builds it.  A text is a sequence of  *)
(* pieces; a piece is one character or a run of characters without %.  Of  *)
(* fmt's verb syntax the model has what the messages of the inputs use: %% *)
(* and a verb of one character directly after the %, with no flags, width  *)
(* or argument index; the arguments are strings.                           *)
(***************************************************************************)
\* The message constants of parser.go as texts
FormatText(kind) ==
    CASE kind = unexpectedToken -> <<"unexpected token ", "%", "s">>
      [] kind = invalidRule -> <<"invalid rule ", "%", "s">>
      [] kind = expectedValidRule -> <<"expected valid rule ", "%", "s">>
      [] kind = errorParsingExpressionGroup ->
            <<"error parsing expression group ", "%", "%", "s", "\n", "%", "s", "%", "s">>
      [] kind = errorParsingNotRule ->
            <<"error parsing not rule ", "%", "%", "s", "\n", "%", "s", "%", "s">>
      [] kind = invalidArgumentFormat ->
            <<"syntax error ", "%", "%", "s", "\n", "%", "s",
              "argument literal must be in format: paramsource.param.name.path">>
      [] kind = invalidParameterSource ->
            <<"syntax error ", "%", "%", "s", "\n", "%", "s",
              "parameter source must be one of [", "%", "s", "]">>
      [] kind = invalidParameterName ->
            <<"syntax error ", "%", "%", "s", "\n", "%", "s",
              "parameter name cannot be blank">>
      [] kind = invalidSha1Target ->
            <<"syntax error ", "%", "%", "s", "\n", "%", "s",
              "sha1 target must be payload">>

\* fmt.Sprintf(format, args...) for string arguments: %% gives %, %s and %v
\* give the next argument, another verb with an argument gives
\* %!verb(string=argument), a verb with no argument left gives
\* %!verb(MISSING), a % at the end gives %!(NOVERB), and arguments left over
\* are added as %!(EXTRA string=argument).
RECURSIVE Sprintf(_, _)
Sprintf(format, args) ==
    IF format = <<>>
    THEN IF args = <<>> THEN <<>>
         ELSE <<"%", "!", "(EXTRA ">>
                  \o Concat([i \in 1..Len(args) |->
                                (IF i > 1 THEN <<", ">> ELSE <<>>) \o <<"string=">> \o args[i]])
                  \o <<")">>
    ELSE IF Head(format) # "%"
    THEN <<Head(format)>> \o Sprintf(Tail(format), args)
    ELSE IF Len(format) = 1
    THEN <<"%", "!", "(NOVERB)">> \o Sprintf(<<>>, args)
    ELSE LET verb == format[2]
             rest == SubSeq(format, 3, Len(format))
         IN  IF verb = "%" THEN <<"%">> \o Sprintf(rest, args)
             ELSE IF args = <<>>
             THEN <<"%", "!", verb, "(MISSING)">> \o Sprintf(rest, args)
             ELSE IF verb \in {"s", "v"}
             THEN Head(args) \o Sprintf(rest, Tail(args))
             ELSE <<"%", "!", verb, "(string=">> \o Head(args) \o <<")">>
                      \o Sprintf(rest, Tail(args))

\* strings.Repeat("\t", depth)
Tabs(depth) == [i \in 1..depth |-> "\t"]

\* strings.Join of the four parameter sources with ", "
JoinedSources ==
    SourceHeader \o <<",", " ">> \o SourcePayload \o <<",", " ">>
        \o SourceQuery \o <<",", " ">> \o SourceString

\* Parser.Error: fmt.Sprintf("(token: %s, pos: %d)", tokenValue, absolutePosition)
TokenArgument(e) ==
    <<"(token: ">> \o e.token \o <<",", " pos: ", ToString(e.pos), ")">>

\* The text of the error e of the rule parser: the message constant is
\* filled in by the caller of Parser.Error with the tab characters and what
\* else it takes, and the result is the format that Parser.Error hands to
\* fmt.Errorf with the token argument.
RECURSIVE Message(_)
Message(e) ==
    LET first ==
            IF e.kind \in {errorParsingExpressionGroup, errorParsingNotRule}
            THEN Sprintf(FormatText(e.kind), <<Tabs(e.tabs), Message(e.inner[1])>>)
            ELSE IF e.kind = invalidParameterSource
            THEN Sprintf(FormatText(e.kind), <<Tabs(e.tabs), JoinedSources>>)
            ELSE IF e.kind \in {invalidArgumentFormat, invalidParameterName, invalidSha1Target}
            THEN Sprintf(FormatText(e.kind), <<Tabs(e.tabs)>>)
            ELSE FormatText(e.kind)
    IN  Sprintf(first, <<TokenArgument(e)>>)

\* The text part occurs in the text whole, as it is
IsInfix(part, whole) ==
    \E i \in 0..(Len(whole) - Len(part)) : SubSeq(whole, i + 1, i + Len(part)) = part

\* The rule parser returned an error that is not a panic
RuleError ==
    /\ ParserFailure
    /\ mode = "rule"
    /\ Innermost(err[1]).kind # indexOutOfRange

\* C31: an error raised inside groups and not rules is returned wrapped, and
\* the message of each inner error appears unchanged inside the message of
\* the error that wraps it, for every token text the inner message mentions,
\* token texts with the character % included.
C31_InnerMessageUnchanged ==
    RuleError =>
        \A n \in 1..(Len(ErrorChain(err[1])) - 1) :
            /\ ErrorChain(err[1])[n].kind \in {errorParsingExpressionGroup, errorParsingNotRule}
            /\ IsInfix(Message(ErrorChain(err[1])[n + 1]), Message(ErrorChain(err[1])[n]))

\* The token types of the tokens
TokenTypes == [i \in 1..Len(Tokens) |-> Tokens[i].Type]

Literals == {TokenSingleQuotedStringLiteral, TokenDoubleQuotedStringLiteral}

\* The tokens are those of L == V or L ~= V
IsMatchForm ==
    /\ Len(Tokens) = 4
    /\ Tokens[1].Type \in Literals
    /\ Tokens[2].Type \in {TokenStringEqual, TokenRegexEqual}
    /\ Tokens[3].Type \in Literals
    /\ Tokens[4].Type = TokenEOF

\* The tokens are those of L == sha1('payload', S)
IsHashForm ==
    /\ Len(Tokens) = 9
    /\ Tokens[1].Type \in Literals
    /\ SubSeq(TokenTypes, 2, 4) = <<TokenStringEqual, TokenSha1, TokenLeftParenthesis>>
    /\ Tokens[5].Type \in Literals
    /\ Tokens[5].Value = SourcePayload
    /\ Tokens[6].Type = TokenComma
    /\ Tokens[7].Type \in Literals
    /\ SubSeq(TokenTypes, 8, 9) = <<TokenRightParenthesis, TokenEOF>>

\* The tokens are those of the argument list L
IsArgumentForm ==
    /\ Len(Tokens) = 2
    /\ Tokens[1].Type \in Literals
    /\ Tokens[2].Type = TokenEOF

\* A finished run on a text in which the literal L stands where a parameter
\* reference is awaited: the left literal of a value match, a regex match
\* or a hash match, or the only literal of an argument list
ReferenceRun ==
    /\ pc = "done"
    /\ Errors = <<>>
    /\ \/ mode = "rule" /\ (IsMatchForm \/ IsHashForm)
       \/ mode = "args" /\ IsArgumentForm

\* What the check of the literal L gives, whichever parser applies it: the
\* error kind ("" when L is accepted) and the {source, name} pair
CheckOutcome(L) ==
    IF AcceptedReference(L)
    THEN [kind |-> "", reference |-> Argument(BeforeFirstDot(L), AfterFirstDot(L))]
    ELSE [kind |-> ReferenceError(L), reference |-> NoArgument]

\* What the finished run gave for its literal
RunOutcome ==
    IF err # <<>> THEN [kind |-> err[1].kind, reference |-> NoArgument]
    ELSE [kind |-> "",
          reference |-> IF mode = "rule" THEN GeneratedRule.Parameter
                        ELSE GeneratedArguments[1]]

\* C32: the check of the left literal in the value-match, regex-match and
\* hash-match productions and the check of the comma-list parser accept the
\* same literals, give the same {source, name} pair for an accepted literal
\* and the same error kind for a rejected one: the outcome of each of the
\* four is one function of the literal alone.
C32_SameReferenceCheck ==
    ReferenceRun => RunOutcome = CheckOutcome(Tokens[1].Value)

C32_Witness ==
    /\ ReferenceRun
    /\ mode = "rule"
    /\ IsHashForm
    /\ Tokens[1].Value = textBadNoName
    /\ RunOutcome.kind = invalidParameterSource

\* The scan has ended
ScanEnded == pc # "lex"

\* The last token is the end-of-input token
EndsWithEOF == Tokens # <<>> /\ Tokens[Len(Tokens)].Type = TokenEOF

\* Some byte of the input belongs to a character of more than one byte
HasMultiByte == \E i \in 1..Len(Input) : IsContinuationByte(Input[i])

EOFCount(ts) == Cardinality({i \in 1..Len(ts) : ts[i].Type = TokenEOF})

\* The scan stopped on an unexpected character
UnexpectedCharacter(errors) ==
    \E i \in 1..Len(errors) : errors[i].kind = errorUnexpectedToken

\* The tokens ts are the first tokens of us
IsPrefix(ts, us) == Len(ts) <= Len(us) /\ SubSeq(us, 1, Len(ts)) = ts

\* C33: the token sequence holds at most one end-of-input token and, if
\* present, it is the last token; when the scan has ended it is present
\* exactly when the scan did not stop on an unexpected character; a step
\* keeps the tokens emitted before it, and after an unexpected character no
\* token is appended.
C33_EndOfInputToken ==
    [][/\ EOFCount(Tokens') <= 1
       /\ EOFCount(Tokens') = 1 => Tokens'[Len(Tokens')].Type = TokenEOF
       /\ State' = "nil" => (EOFCount(Tokens') = 1 <=> ~UnexpectedCharacter(Errors'))
       /\ IsPrefix(Tokens, Tokens')
       /\ UnexpectedCharacter(Errors) => Tokens' = Tokens
       /\ EOFCount(Tokens) = 1 => Tokens' = Tokens
      ]_vars

C33_Witness ==
    /\ pc = "done"
    /\ State = "nil"
    /\ UnexpectedCharacter(Errors)
    /\ Len(Tokens) = 3
    /\ EOFCount(Tokens) = 0

\* Some literal token has a parenthesis in its text
ParenthesisInLiteral ==
    \E i \in 1..Len(Tokens) :
        /\ Tokens[i].Type \in Literals
        /\ \E j \in 1..Len(Tokens[i].Value) : Tokens[i].Value[j] \in {"(", ")"}

\* C34: at every step of a scan the open-parenthesis counter is the number
\* of ( tokens emitted so far minus the number of ) tokens emitted so far;
\* parentheses inside quoted literals are no tokens and do not change it.
C34_OpenParenthesisCount ==
    OpenParenthesisCount =
        CountTokens(TokenLeftParenthesis, Len(Tokens))
            - CountTokens(TokenRightParenthesis, Len(Tokens))

C34_Witness ==
    /\ pc = "lex"
    /\ ParenthesisInLiteral
    /\ Len(Tokens) = 5
    /\ CountTokens(TokenLeftParenthesis, Len(Tokens)) = 1
    /\ CountTokens(TokenRightParenthesis, Len(Tokens)) = 1
    /\ OpenParenthesisCount = 0

\* C35: lexical errors come first.  If the scan reports an error, Parse
\* returns the first error of the lexer's list and the token parser is not
\* run, also when the tokens in front of the lexical error hold a syntactic
\* error.  The lexer's list holds at most two errors, and a second error is
\* the "missing closing parenthesis" error.
C35_LexicalErrorsFirst ==
    /\ Len(Errors) <= 2
    /\ Len(Errors) = 2 => Errors[2].kind = errorClosingParenthesisMissing
    /\ Errors # <<>> =>
          /\ pc \in {"lex", "done"}
          /\ ParserPosition = 0
          /\ frames = <<>>
          /\ arguments = <<>>
          /\ GeneratedRule = EmptyRule
          /\ GeneratedArguments = <<>>
    /\ (ScanEnded /\ Errors # <<>>) =>
          /\ pc = "done"
          /\ err = <<MkError(errorWhileParsing, <<>>, 0, 1, <<Errors[1]>>)>>

C35_Witness ==
    /\ pc = "done"
    /\ mode = "rule"
    /\ Len(Errors) = 2
    /\ Tokens[1].Type = TokenAnd
    /\ Tokens[2].Type = TokenLeftParenthesis
    /\ Errors[1].kind = errorClosingDoubleQuotationMarkIsMissing
    /\ err[1].inner = <<Errors[1]>>

\* A call of a lexer state function halts the scan or moves the scan
\* position forward; LexBegin may leave the position where it is and hand
\* over to a state function that moves it.
LexerProgress ==
    (pc = "lex" /\ State # "nil") =>
        \/ State' = "nil"
        \/ State # "LexBegin" /\ Position' > Position
        \/ State = "LexBegin" /\ State' # "LexBegin" /\ Position' >= Position

\* An iteration of the loop of the rule parser returns an error, ends the
\* level or moves the token cursor forward; the cursor never moves backwards.
ParserProgress ==
    (pc = "parse" /\ mode = "rule") =>
        /\ ParserPosition' >= ParserPosition
        /\ \/ pc' = "done"
           \/ Len(frames') < Len(frames)
           \/ ParserPosition' > ParserPosition

\* The inputs of the runs that are followed to their end: rule texts of at
\* most MaxLiveParts parts and the texts of every other family but the
\* chains of three operands; argument lists of at most MaxLiveParts parts.
LiveRuleInputs ==
    {Concat(parts) : parts \in PartSeqs(RuleParts, MaxLiveParts)}
        \cup ChainsOf(1) \cup ChainsOf(2) \cup MatchInputs \cup Sha1Inputs
        \cup DanglingInputs \cup WrapInputs \cup EscapeInputs
        \cup PercentInputs \cup Sha1ReferenceInputs \cup MultiByteInputs
        \cup ParenthesisLiteralInputs

LiveArgumentInputs ==
    {Concat(parts) : parts \in PartSeqs(ArgumentParts, MaxLiveParts)}
        \cup ArgumentReferenceInputs \cup MultiByteArgumentInputs

InitLive ==
    /\ mode \in {"rule", "args"}
    /\ Input \in IF mode = "rule" THEN LiveRuleInputs ELSE LiveArgumentInputs
    /\ pc = "lex"
    /\ Tokens = <<>>
    /\ State = "LexBegin"
    /\ Errors = <<>>
    /\ TokenStart = 0
    /\ Position = 0
    /\ OpenParenthesisCount = 0
    /\ ParserPosition = 0
    /\ frames = <<>>
    /\ arguments = <<>>
    /\ expectingArgument = TRUE
    /\ GeneratedRule = EmptyRule
    /\ GeneratedArguments = <<>>
    /\ err = <<>>
    /\ earlier = <<>>
    /\ cliAtRest

\* Parse is called once and runs on: Lex and parseRule have no wait and no
\* other thread, so a step is taken whenever one is possible.
SpecLive == InitLive /\ [][Next]_vars /\ WF_vars(Next)

\* C36: Parse terminates for every input.  Every call of a lexer state
\* function halts the scan or leads to an advance of the scan position,
\* every iteration of the rule parser returns an error, ends the level or
\* advances the token cursor, the cursor never moves backwards, and every
\* run reaches the return of Parse.
C36_ParseTerminates ==
    /\ [][LexerProgress /\ ParserProgress]_vars
    /\ <>(pc = "done")

C36_Witness ==
    /\ pc = "done"
    /\ mode = "rule"
    /\ err = <<>>
    /\ Position = Len(Input)
    /\ ParserPosition = Len(Tokens) - 1
    /\ Len(Tokens) = 12
    /\ OpenParenthesisCount = 0
    /\ EOFCount(Tokens) = 1

\* The token parser runs or has run: the scan reported no error
ParserRuns == pc \in {"parse", "done"} /\ Errors = <<>>

\* Some error of the chain of e is the panic of an index out of range
HasPanic(e) ==
    \E n \in 1..Len(ErrorChain(e)) : ErrorChain(e)[n].kind = indexOutOfRange

\* C38: whenever the token parser runs, the token cursor is a valid index
\* of the token sequence, 0 <= cursor < number of tokens, and no token index
\* the parser reads or hands to the error constructor lies outside the
\* sequence: the parser never panics with an index out of range.
C38_CursorInRange ==
    ParserRuns =>
        /\ 0 <= ParserPosition
        /\ ParserPosition < Len(Tokens)
        /\ Tokens[Len(Tokens)].Type = TokenEOF
        /\ err # <<>> => ~HasPanic(err[1])

C38_Witness ==
    /\ ParserRuns
    /\ pc = "done"
    /\ mode = "rule"
    /\ err # <<>>
    /\ err[1].kind = errorParsingNotRule
    /\ ParserPosition = Len(Tokens) - 1
    /\ Len(Tokens) = 4

(***************************************************************************)
(* package main: the delete command.  The process runs deleteHook once and *)
(* ends.                                                                   *)
(***************************************************************************)
emptyHooksFile == "error: hooks file is empty"
mustSpecifyHookID == "you must specify a valid hook id"
noMatchingHooks == "could not find any hooks matching the given id"
manyMatchingDelete == "there are %d hook(s) matching the given id\nuse --idx index to specify the one you want to delete\nor use --all to delete all of them\n"
manyMatchingModify == "there are %d hook(s) matching the given id\nuse --idx index to specify the one you want to modify"
indexOutOfBounds == "given local hook index is out of bounds"

\* The indexes of hs, in order
Indexes(hs) == [i \in 1..Len(hs) |-> i]

\* loadHooks: hooksMap after the loop; under each id the pointers to the
\* hooks with that id, in file order
loadedHooksMap(hs) ==
    [id \in ArgumentIDs |-> SelectSeq(Indexes(hs), LAMBDA i : hs[i].ID = id)]

\* loadHooks: hooksIds after sort.Strings
loadedHooksIds(hs) ==
    SelectSeq(<<"a", "b", "c">>, LAMBDA id : loadedHooksMap(hs)[id] # <<>>)

\* findHooksByID
findHooksByID(c, map) ==
    IF Len(c.Args) = 0 THEN [err |-> mustSpecifyHookID, hooksSlice |-> <<>>]
    ELSE IF map[c.Args[1]] = <<>> THEN [err |-> noMatchingHooks, hooksSlice |-> <<>>]
    ELSE [err |-> "", hooksSlice |-> map[c.Args[1]]]

\* findOneHookByID
findOneHookByID(c, map) ==
    LET found == findHooksByID(c, map)
    IN  IF found.err # "" THEN [err |-> found.err, hook |-> 0]
        ELSE IF ~c.idxSet /\ Len(found.hooksSlice) > 1
        THEN [err |-> manyMatchingModify, hook |-> 0]
        ELSE IF c.idx >= Len(found.hooksSlice) \/ c.idx < 0
        THEN [err |-> indexOutOfBounds, hook |-> 0]
        ELSE [err |-> "", hook |-> found.hooksSlice[c.idx + 1]]

\* Mutant of deleteHooks: a hook is dropped when it equals a hook to delete.
deleteHooksByValue(hs, hooksToDelete) ==
    LET kept == SelectSeq(Indexes(hs),
                          LAMBDA i : \A j \in 1..Len(hooksToDelete) :
                                        hs[hooksToDelete[j]] # hs[i])
    IN  [k \in 1..Len(kept) |-> hs[kept[k]]]

\* deleteHooks: the hooks of hs whose address is none of hooksToDelete, in order
deleteHooks(hs, hooksToDelete) ==
    LET kept == SelectSeq(Indexes(hs),
                          LAMBDA i : \A j \in 1..Len(hooksToDelete) :
                                        hooksToDelete[j] # i)
    IN  [k \in 1..Len(kept) |-> hs[kept[k]]]

\* deleteHook, with loadHooks, terminateOnEmptyHooksFile, findHooksByID,
\* findOneHookByID, deleteHooks and saveHooks.
deleteHook ==
    /\ mode = "delete" /\ pc = "deleteHook"
    /\ LET loaded == file
           map == loadedHooksMap(loaded)
           found == findHooksByID(context, map)
           one == findOneHookByID(context, map)
           several == Len(found.hooksSlice) > 1
           refused == several /\ ~context.idxSet /\ (~context.allSet \/ ~context.all)
           picked == several /\ ~refused /\ ~context.all /\ context.idxSet
           problem == IF Len(loaded) = 0 THEN emptyHooksFile
                      ELSE IF found.err # "" THEN found.err
                      ELSE IF refused THEN manyMatchingDelete
                      ELSE IF picked /\ one.err # "" THEN one.err
                      ELSE ""
           hooksToBeDeleted == IF picked THEN <<one.hook>> ELSE found.hooksSlice
       IN  /\ hooksMap' = map
           /\ hooksIds' = loadedHooksIds(loaded)
           /\ fatal' = problem
           /\ hooks' = IF problem = "" THEN deleteHooks(loaded, hooksToBeDeleted) ELSE loaded
           /\ file' = IF problem = "" THEN hooks' ELSE file
    /\ pc' = "exit"
    /\ UNCHANGED <<context, mode, earlier, lexerVars, ParserPosition, frames, arguments,
                   expectingArgument, GeneratedRule, GeneratedArguments, err>>

\* The hooks files: at most MaxHooks hooks, hooks that share an id and hooks
\* that are equal in every property included.
HookValues == {Hook(id, command) : id \in HookIDs, command \in {"x", "y"}}

HooksFiles == UNION {[1..n -> HookValues] : n \in 0..MaxHooks}

\* The command lines: no id or one id, --idx absent or given with a value
\* from -1 to MaxHooks, --all absent, given, or given as --all=false.
Contexts ==
    {Context(args, idxSet, IF idxSet THEN idx ELSE 0, allSet, allSet /\ all) :
        args \in {<<>>} \cup {<<id>> : id \in ArgumentIDs},
        idxSet \in BOOLEAN, idx \in (-1)..MaxHooks,
        allSet \in BOOLEAN, all \in BOOLEAN}

InitDelete ==
    /\ mode = "delete"
    /\ pc = "deleteHook"
    /\ file \in HooksFiles
    /\ context \in Contexts
    /\ hooks = <<>>
    /\ hooksIds = <<>>
    /\ hooksMap = emptyHooksMap
    /\ fatal = ""
    /\ Input = <<>>
    /\ Tokens = <<>>
    /\ State = "LexBegin"
    /\ Errors = <<>>
    /\ TokenStart = 0
    /\ Position = 0
    /\ OpenParenthesisCount = 0
    /\ ParserPosition = 0
    /\ frames = <<>>
    /\ arguments = <<>>
    /\ expectingArgument = TRUE
    /\ GeneratedRule = EmptyRule
    /\ GeneratedArguments = <<>>
    /\ err = <<>>
    /\ earlier = <<>>

NextDelete == deleteHook

SpecDelete == InitDelete /\ [][NextDelete]_vars

\* The number of hooks of hs with the id
CountWithID(hs, id) == Cardinality({i \in 1..Len(hs) : hs[i].ID = id})

\* The place in hs of the hook that has the id and n hooks with the id in
\* front of it
NthWithID(hs, id, n) ==
    CHOOSE k \in 1..Len(hs) :
        /\ hs[k].ID = id
        /\ Cardinality({j \in 1..(k - 1) : hs[j].ID = id}) = n

\* hs without the hook at place k
Without(hs, k) == SubSeq(hs, 1, k - 1) \o SubSeq(hs, k + 1, Len(hs))

\* The step is the run of the delete command with a hook id that some hook
\* of the file has, with --idx and without --all
DeleteByIndex ==
    /\ mode = "delete" /\ pc = "deleteHook" /\ pc' = "exit"
    /\ Len(context.Args) > 0
    /\ CountWithID(file, context.Args[1]) >= 1
    /\ context.idxSet
    /\ ~context.all

\* C39: the delete command, given a hook id shared by several hooks and
\* --idx i without --all, removes exactly the i-th hook with that id in file
\* order; all other hooks, the other hooks with the same id included, stay
\* in the saved list in their order.
C39_DeleteByIndex ==
    [][(/\ DeleteByIndex
        /\ CountWithID(file, context.Args[1]) > 1
        /\ context.idx \in 0..(CountWithID(file, context.Args[1]) - 1))
       => /\ fatal' = ""
          /\ file' = Without(file, NthWithID(file, context.Args[1], context.idx))
          /\ hooks' = file'
      ]_vars

C39_Witness ==
    /\ mode = "delete" /\ pc = "exit"
    /\ fatal = ""
    /\ context.Args = <<"a">>
    /\ context.idxSet /\ context.idx = 1 /\ ~context.all
    /\ hooksMap["a"] = <<1, 2, 3>>
    /\ file = <<Hook("a", "x"), Hook("a", "x")>>

\* C40: the delete command, given --idx with a value outside 0..(number of
\* hooks with the given id - 1), deletes no hook and fails with "given local
\* hook index is out of bounds", whether one hook or several have the id.
C40_IndexOutOfBounds ==
    [][(/\ DeleteByIndex
        /\ context.idx \notin 0..(CountWithID(file, context.Args[1]) - 1))
       => /\ fatal' = indexOutOfBounds
          /\ file' = file
      ]_vars

====
